---- MODULE Spec2Model ----
(***************************************************************************)
(* NUFEB reaction-diffusion core (lammps5Nov16):                           *)
(*   FixKinetics::integration      - the coupled convergence loop          *)
(*   FixKineticsDiffusion::diffusion, compute_bc, compute_flux,            *)
(*   compute_bulk                  - the explicit diffusion stepper        *)
(*                                                                         *)
(* The specifications share the variables.                                 *)
(*   SpecLoop   : integration() with the real iteration cap; the field of  *)
(*                the diffusion stepper is abstracted to the per-species   *)
(*                local convergence verdicts it produces (any verdict).    *)
(*   SpecGrid   : integration() driving diffusion() on a concrete grid,    *)
(*                the number of diffusion calls bounded by MaxSteps.       *)
(*   SpecInit   : the cell sizes and the cubic test of init().             *)
(*   SpecHalo   : one halo exchange with its buffers and requests.         *)
(*   SpecStep   : pre_force() over the timesteps of a run.                 *)
(*   SpecThreads: diffusion() with the threads of its parallel region.     *)
(*   SpecRegrid : the ghost flags through init() and update_grids().       *)
(*   SpecRanks  : integration() run by every process on its own.           *)
(*   SpecGas    : fix nufeb/gas_liquid, modify_param and post_integrate.   *)
(* Concentrations are integers counting units of 1e-20, the clamp floor;   *)
(* the cell size, the time steps and the reactor volume are 1, so that the *)
(* arithmetic of the stepper is exact.                                     *)
(***************************************************************************)
EXTENDS Integers, Sequences, FiniteSets, TLC

VARIABLES
  pc,         \* position of FixKinetics: "idle" | "loop" | "exit"
  iteration,  \* int iteration of integration()
  isConv,     \* bool isConv of integration()
  nuConv,     \* bool nuConv[0..nnus] (plus the bytes the reduction spills into)
  bio,        \* bio->nuName, bio->nuType (the species table of the input)
  fixes,      \* which of ph, thermo, monod, diffusion FixKinetics::init found
  nprocs,     \* comm->nprocs
  calls,      \* history: number of calls of each participant in this integration()
  printed,    \* history: species indices printed by the cap branch, in order
  reported,   \* history: the value printed as "number of iteration"
  lastConv,   \* history: nuConv as the last diffusion() call returned it
  localConv,  \* history: conv[i] of every process in the last diffusion() call
  exitBy,     \* history: how the while loop was left
  order,      \* history: the calls of the latest pass of the loop body, in order,
              \*   and what integration() called after it
  growthDt,   \* history: the duration given to the latest monod->growth call
  nevery,     \* FixKinetics::nevery
  ntimestep,  \* update->ntimestep
  preForced,  \* history: the timestep of the latest pre_force call
  cfg,        \* FixKineticsDiffusion: xbcflag, ybcflag, zbcflag, unit, shearRate,
              \*   q, af, kinetics->bl, kinetics->bnz, and comm->nthreads
  sub,        \* kinetics->sublo, subhi, subn of every process
  dims,       \* nX, nY, nZ of every process
  xGrid,      \* xGrid[grid][0..2] of every process, doubled
  nuGrid,     \* nuGrid[grid][nu] of every process, kept as nuGrid[p][nu][grid]
  nuPrev,     \* nuPrev[nu][grid] of every process
  nuR,        \* kinetics->nuR[nu][ind] of every process
  nuBS,       \* nuBS[nu] of every process
  ghost,      \* ghost[grid] of every process
  nXYZ,       \* nXYZ of every process
  steps,      \* history: number of diffusion() calls so far
  lastStepped, \* history: the species the last diffusion() call stepped
  bulkCalls,  \* history: number of compute_bulk(i) calls so far, per species
  firstPasses, \* history: number of diffusion() calls with iter == 1 so far
  lastRates,  \* history: nuR as the last diffusion() call found it
  halo,       \* kinetics->sendcells, sendbegin, sendend, recvcells, recvbegin, recvend
  sendbuff,   \* the doubles every process has packed into sendbuff
  recvbuff,   \* the doubles delivered into recvbuff of every process
  buffSize,   \* send_buff_size and recv_buff_size of every process
  packed,     \* history: nuGrid when the send buffers were packed
  undefined,  \* history: the writes past the end of an array made so far
  tpc,        \* position of every thread in the parallel region of diffusion()
  tsp,        \* the species index i of every thread's loop, line 374
  maxShared,  \* double maxS of diffusion(), shared by the threads
  p_maxS,     \* double p_maxS of every thread
  convShared, \* bool conv[1..nnus] of diffusion(), shared by the threads
  singles,    \* the species whose `omp single` a thread has already executed
  divs,       \* history: the divisor every thread used in the check of a species
  rank,       \* every process's own pc, iteration, isConv, nuConv, conv and i
  posted,     \* the number of halo exchanges every process has posted
  given,      \* the values every process has handed to MPI_Allreduce, in order
  hist,       \* history: the species every process stepped, call by call
  gpc,        \* position of FixGasLiquid: "ready" | "parse" | "error"
  garg,       \* char **arg of modify_param (narg is its length)
  iarg,       \* int iarg of modify_param
  compute_flag, \* FixGasLiquid::compute_flag
  gret,       \* history: what modify_param returned last
  spins,      \* history: passes of the while loop since iarg last changed
  reac,       \* grid->reac[igas][i] and grid->reac[iliquid][i]
  gas         \* grid->mask, grid->conc[iliquid], grid->bulk[igas], kga; calls so far

loopVars == <<pc, iteration, isConv, nuConv, bio, fixes, nprocs,
              calls, printed, reported, lastConv, localConv, exitBy, order,
              growthDt>>

gridVars == <<cfg, sub, dims, xGrid, nuGrid, nuPrev, nuR, nuBS, ghost, nXYZ, steps,
              lastStepped, bulkCalls, firstPasses, lastRates>>

haloVars == <<halo, sendbuff, recvbuff, buffSize, packed, undefined>>

threadVars == <<tpc, tsp, maxShared, p_maxS, convShared, singles, divs>>

rankVars == <<rank, posted, given, hist>>

gasVars == <<gpc, garg, iarg, compute_flag, gret, spins, reac, gas>>

extraVars == <<threadVars, rankVars, gasVars>>

auxVars == <<nevery, ntimestep, preForced, haloVars, extraVars>>

\* outside SpecHalo no exchange state is kept
NoHalo ==
  /\ halo = <<>> /\ sendbuff = <<>> /\ recvbuff = <<>> /\ buffSize = <<>>
  /\ packed = <<>> /\ undefined = {}

\* outside SpecThreads the parallel region is one step
NoThreads ==
  /\ tpc = <<>> /\ tsp = <<>> /\ maxShared = 0 /\ p_maxS = <<>> /\ convShared = <<>>
  /\ singles = {} /\ divs = <<>>

\* outside SpecRanks the processes are taken together
NoRanks == rank = <<>> /\ posted = <<>> /\ given = <<>> /\ hist = <<>>

\* outside SpecGas there is no fix nufeb/gas_liquid
NoGas ==
  /\ gpc = "none" /\ garg = <<>> /\ iarg = 0 /\ compute_flag = 0 /\ gret = 0
  /\ spins = 0 /\ reac = <<>> /\ gas = <<>>

NoExtra == NoThreads /\ NoRanks /\ NoGas

vars == <<loopVars, gridVars, auxVars>>

-----------------------------------------------------------------------------
(* Species table.  nuType 0 is a liquid species (stepped by diffusion).    *)

Species(b)  == 1..Len(b.nuName)
nnus        == Len(bio.nuName)

\* `iteration > 10000` of FixKinetics::integration
IterationCap == 10000

\* bytes of the MPI_INT that MPI_Allreduce stores at &nuConv[i]
SizeofInt == 4

LoopTables ==
  { [nuName |-> <<"sub", "o2", "h2o", "h", "co2">>, nuType |-> <<0, 0, 0, 0, 1>>],
    [nuName |-> <<"h", "nh4", "h2o">>,              nuType |-> <<0, 0, 0>>],
    [nuName |-> <<"h2o", "h">>,                     nuType |-> <<0, 0>>] }

-----------------------------------------------------------------------------
(* FixKinetics::integration, lines 279-284: the initialisation of nuConv.  *)

IsExempt(name) == name = "h2o" \/ name = "h"

\* mutant: only "h2o" is exempt
InitFlags_OnlyWater(b, old) ==
  [i \in DOMAIN old |->
     IF i \in Species(b) THEN b.nuName[i] = "h2o" ELSE old[i]]

InitFlags(b, old) ==
  [i \in DOMAIN old |->
     IF i \in Species(b) THEN IsExempt(b.nuName[i]) ELSE old[i]]

(* FixKineticsDiffusion::diffusion, line 375: the species a call steps.    *)
Stepped(b, flags, i) == b.nuType[i] = 0 /\ ~flags[i]

SteppedSet(b, flags) == {i \in Species(b) : Stepped(b, flags, i)}

(* lines 315-317 and 430-431: conv[i] starts true and is and-ed with the   *)
(* local verdict p_conv of a stepped species.                              *)
\* mutant: conv[i] starts false
LocalConv_StartFalse(b, flags, verdict) ==
  [i \in Species(b) |-> IF Stepped(b, flags, i) THEN verdict[i] ELSE FALSE]

LocalConv(b, flags, verdict) ==
  [i \in Species(b) |-> IF Stepped(b, flags, i) THEN verdict[i] ELSE TRUE]

(* lines 436-439: MPI_Allreduce(&iconv, &nuConv[i], 1, MPI_INT, MPI_BAND). *)
(* The reduction stores an int at a bool: on the little-endian hosts the   *)
(* code runs on, byte i receives the and of the processes' conv[i] and the *)
(* three following bytes receive 0; the loop then overwrites them for the  *)
(* following species.                                                      *)
\* mutant: the reduction is MPI_BOR
Band_Or(convs, i) == \E p \in DOMAIN convs : convs[p][i]

Band(convs, i) == \A p \in DOMAIN convs : convs[p][i]

StoreInt(flags, i, value) ==
  [j \in DOMAIN flags |->
     IF j = i THEN value
     ELSE IF j > i /\ j < i + SizeofInt THEN FALSE
     ELSE flags[j]]

RECURSIVE Allreduce(_, _, _, _)
Allreduce(flags, convs, i, n) ==
  IF i > n THEN flags
  ELSE Allreduce(StoreInt(flags, i, Band(convs, i)), convs, i + 1, n)

(* What diffusion() returns as nuConv, given every process's verdicts.     *)
DiffusionFlags(b, flags, verdicts) ==
  Allreduce(flags,
            [p \in DOMAIN verdicts |-> LocalConv(b, flags, verdicts[p])],
            1, Len(b.nuName))

(* integration(), lines 297-302.                                           *)
AllConverged(b, flags) == \A i \in Species(b) : flags[i]

(* integration(), lines 304-312.                                           *)
\* mutant: the cap test one iteration late
CapReached_Late(it) == it > IterationCap + 1
\* mutant: the cap test as `iteration >= 10000`
CapReached_AtCap(it) == it >= IterationCap

CapReached(it) == it > IterationCap

\* mutant: the cap branch names every species, forced or not
ForcedFrom_All(b, flags, i) == [j \in Species(b) |-> j]

RECURSIVE ForcedFrom(_, _, _)
ForcedFrom(b, flags, i) ==
  IF i > Len(b.nuName) THEN <<>>
  ELSE IF ~flags[i] THEN <<i>> \o ForcedFrom(b, flags, i + 1)
  ELSE ForcedFrom(b, flags, i + 1)

ForceFlags(b, flags) ==
  [j \in DOMAIN flags |-> IF j \in Species(b) THEN TRUE ELSE flags[j]]

-----------------------------------------------------------------------------
(* The grid of FixKineticsDiffusion::init.                                 *)

\* cells per axis of the global grid: kinetics->nx, ny, nz
GridN == 2
nx == GridN
ny == GridN
nz == GridN

\* domain->boxlo, and the cubic cell size (xhi-xlo)/nx = stepy = stepz
xlo == 0
ylo == 0
zlo == 0
stepx == 1
stepy == stepx
stepz == stepx
xhi == xlo + nx * stepx
yhi == ylo + ny * stepy
zhi == zlo + nz * stepz

\* rvol, update->dt * nevery, and tol = TolNum / TolDen
rvol == 1
dtNevery == 1
diffT == 2
TolNum == 1
TolDen == 1000

\* 1e-20, the unit in which concentrations are counted
Floor == 1

\* the factor of `unit == 0` (mol)
MolFactor == 1000

UnitFactor(unit) == IF unit = 0 THEN MolFactor ELSE 1

Procs == 0..(nprocs - 1)

(* kinetics->sublo, subhi, subn: each process owns a half-open sub-box of  *)
(* the domain; the processes are slabs along x.                            *)
SubBox(p) ==
  LET lo == xlo + ((p * nx) \div nprocs) * stepx
      hi == xlo + (((p + 1) * nx) \div nprocs) * stepx
  IN  [lo |-> <<lo, ylo, zlo>>, hi |-> <<hi, yhi, zhi>>,
       n |-> <<(hi - lo) \div stepx, ny, nz>>]

sublo(p) == sub[p].lo
subhi(p) == sub[p].hi
subn(p)  == sub[p].n

(* init(), lines 216-220.                                                  *)
LocalDims(box) == [nX |-> box.n[1] + 2, nY |-> box.n[2] + 2, nZ |-> box.n[3] + 2]

nX(p) == dims[p].nX
nY(p) == dims[p].nY
nZ(p) == dims[p].nZ
Cells(p) == 0..(nX(p) * nY(p) * nZ(p) - 1)

IX(p, g) == g % nX(p)
IY(p, g) == (g \div nX(p)) % nY(p)
IZ(p, g) == g \div (nX(p) * nY(p))

(* xGrid[grid][0..2] of init(), lines 238-243, doubled: the centre of cell *)
(* (ix,iy,iz) is sublo - step/2 + i*step.                                  *)
InitXGrid(p) ==
  [g \in Cells(p) |->
     << 2 * sublo(p)[1] - stepx + 2 * IX(p, g) * stepx,
        2 * sublo(p)[2] - stepy + 2 * IY(p, g) * stepy,
        2 * sublo(p)[3] - stepz + 2 * IZ(p, g) * stepz >>]

xGrid2(p, g) == xGrid[p][g]

(* bzhi = kinetics->bnz * stepz                                            *)
bzhi(bnz) == bnz * stepz

(* init(), lines 246-267: the face whose value a cell starts with          *)
(* (index into iniS[nu][.]); 0 is a true cell.                             *)
InitFace(p, g, bnz) ==
  LET x == xGrid2(p, g)
  IN  IF x[1] < 2 * sublo(p)[1] THEN 1
      ELSE IF x[1] > 2 * subhi(p)[1] THEN 2
      ELSE IF x[2] < 2 * sublo(p)[2] THEN 3
      ELSE IF x[2] > 2 * subhi(p)[2] THEN 4
      ELSE IF x[3] < 2 * sublo(p)[3] THEN 5
      ELSE IF x[3] > 2 * bzhi(bnz) THEN 6
      ELSE 0

IniS(b, nu, k) == b.iniS[nu][k + 1]

InitGhost(p, bnz) == [g \in Cells(p) |-> InitFace(p, g, bnz) # 0]

InitConc(b, unit, p, bnz) ==
  [nu \in Species(b) |->
     [g \in Cells(p) |-> IniS(b, nu, InitFace(p, g, bnz)) * UnitFactor(unit)]]

(* init(), lines 270-271.                                                  *)
InitBulk(b, unit) == [nu \in Species(b) |-> IniS(b, nu, 6) * UnitFactor(unit)]

(* nuR index of a true cell, diffusion() lines 390-393.                    *)
Ind(p, g) ==
  LET x  == xGrid2(p, g)
      ix == (x[1] - 2 * sublo(p)[1]) \div (2 * stepx)
      iy == (x[2] - 2 * sublo(p)[2]) \div (2 * stepy)
      iz == (x[3] - 2 * sublo(p)[3]) \div (2 * stepz)
  IN  iz * subn(p)[1] * subn(p)[2] + iy * subn(p)[1] + ix

(* kinetics->nuR[nu][0 .. ngrids-1], ngrids = nx * ny * nz on every        *)
(* process (fix_bio_kinetics.cpp lines 158-164); a process indexes its own *)
(* cells by Ind, the first subn[0]*subn[1]*subn[2] entries.                *)
RateCells(p) == 0..(nx * ny * nz - 1)
LocalRateCells(p) == 0..(subn(p)[1] * subn(p)[2] * subn(p)[3] - 1)

-----------------------------------------------------------------------------
(* update_grids(), lines 446-456.                                          *)
UpdatedNXYZ(p, bnz) == nX(p) * nY(p) * (bnz + 2)

UpdatedGhost(p, old, bnz) ==
  [g \in Cells(p) |->
     IF g < UpdatedNXYZ(p, bnz)
     THEN LET x == xGrid2(p, g)
          IN  \/ x[1] < 0 \/ x[2] < 0 \/ x[3] < 0
              \/ x[1] > 2 * subhi(p)[1] \/ x[2] > 2 * subhi(p)[2]
              \/ x[3] > 2 * bzhi(bnz)
     ELSE old[g]]

-----------------------------------------------------------------------------
(* The halo exchange of diffusion(), lines 319-345.  The lists             *)
(* kinetics->sendcells / recvcells are built outside the files at hand:    *)
(* a ghost cell of p receives the true cell of the other process q that    *)
(* covers it, through a periodic image on an axis of kind pp.              *)
GlobalCell(p, g) ==
  << (sublo(p)[1] - xlo) \div stepx + IX(p, g) - 1, IY(p, g) - 1, IZ(p, g) - 1 >>

WrapAxis(v, n, flag) == IF flag = 0 THEN v % n ELSE v

Wrapped(p, g) ==
  LET c == GlobalCell(p, g)
  IN  << WrapAxis(c[1], nx, cfg.xbcflag), WrapAxis(c[2], ny, cfg.ybcflag),
         WrapAxis(c[3], nz, cfg.zbcflag) >>

OwnsCell(q, c) ==
  /\ c[1] >= (sublo(q)[1] - xlo) \div stepx
  /\ c[1] <  (subhi(q)[1] - xlo) \div stepx
  /\ c[2] >= 0 /\ c[2] < ny
  /\ c[3] >= 0 /\ c[3] < nz

LocalIndex(q, c) ==
  (c[1] - (sublo(q)[1] - xlo) \div stepx + 1)
     + nX(q) * ((c[2] + 1) + nY(q) * (c[3] + 1))

OutsideSub(p, g) ==
  \/ IX(p, g) = 0 \/ IX(p, g) = nX(p) - 1
  \/ IY(p, g) = 0 \/ IY(p, g) = nY(p) - 1
  \/ IZ(p, g) = 0 \/ IZ(p, g) = nZ(p) - 1

RecvFrom(p, g) ==
  IF OutsideSub(p, g)
  THEN {q \in Procs \ {p} : OwnsCell(q, Wrapped(p, g))}
  ELSE {}

\* mutant: the ghost slots keep what they held before the call
Exchange_Stale(grid) == grid

Exchange(grid) ==
  [p \in Procs |->
     [nu \in Species(bio) |->
        [g \in Cells(p) |->
           IF RecvFrom(p, g) = {} THEN grid[p][nu][g]
           ELSE LET q == CHOOSE r \in RecvFrom(p, g) : TRUE
                IN  grid[q][nu][LocalIndex(q, Wrapped(p, g))]]]]
-----------------------------------------------------------------------------
(* diffusion(), lines 347-365.                                             *)

(* xbcm, xbcp, ybcm, ybcp, zbcm, zbcp as assigned for species i.           *)
BcOf(b, unit, i) == [k \in 1..6 |-> IniS(b, i, k) * UnitFactor(unit)]

(* The members xbcm .. zbcp are assigned in the loop over the species that *)
(* ends at line 365; the loop that steps the species (line 374) follows    *)
(* it, so compute_bc reads what the last species, nnus, left in them.      *)
BcMembers(b, unit) == BcOf(b, unit, Len(b.nuName))

RECURSIVE SumTo(_, _)
SumTo(f, n) == IF n < 0 THEN 0 ELSE f[n] + SumTo(f, n - 1)

(* compute_bulk(), lines 462-467.                                          *)
ComputeBulk(bulk, rates, zbcp) ==
  LET sumR == SumTo(rates, nx * ny * nz - 1)
  IN  bulk + ( (cfg.q * (zbcp - bulk)) \div rvol
               + (cfg.af * sumR * stepx * stepy * stepz) \div (rvol * yhi * xhi) )
             * dtNevery

\* mutant: the bulk update is not confined to the first inner iteration
BulkEligible_EveryIter(b, i, iter) ==
  b.nuName[i] # "o2" /\ cfg.q >= 0 /\ cfg.af >= 0

(* line 364                                                                *)
BulkEligible(b, i, iter) ==
  iter = 1 /\ b.nuName[i] # "o2" /\ cfg.q >= 0 /\ cfg.af >= 0

BulkAfter(p, iter, rates) ==
  [i \in Species(bio) |->
     IF BulkEligible(bio, i, iter)
     THEN ComputeBulk(nuBS[p][i], rates[p][i], BcOf(bio, cfg.unit, i)[6])
     ELSE nuBS[p][i]]

-----------------------------------------------------------------------------
\* mutant: the value is stored as computed, no floor
Clamp_NoFloor(v) == v

(* `if (nuCell <= 0) nuCell = 1e-20`, lines 399-406 and 594.               *)
Clamp(v) == IF v > 0 THEN v ELSE Floor

(* compute_bc(), lines 473-595: the branch of a low face and of a high     *)
(* face; `cur` is the value the cell holds when no branch assigns.         *)
BcLow(flag, bcm, prev, adj, opp, cur) ==
  IF flag = 0 THEN (IF nprocs < 2 THEN prev[opp] ELSE cur)
  ELSE IF flag = 1 THEN 2 * bcm - prev[adj]
  ELSE IF flag = 2 THEN prev[adj]
  ELSE IF flag = 3 THEN prev[adj]
  ELSE IF flag = 4 THEN 2 * bcm - prev[adj]
  ELSE cur

BcHigh(flag, bcp, prev, adj, opp, cur) ==
  IF flag = 0 THEN (IF nprocs < 2 THEN prev[opp] ELSE cur)
  ELSE IF flag = 1 THEN 2 * bcp - prev[adj]
  ELSE IF flag = 2 THEN 2 * bcp - prev[adj]
  ELSE IF flag = 3 THEN prev[adj]
  ELSE IF flag = 4 THEN prev[adj]
  ELSE cur

ComputeBc(p, gh, prev, g, bulk, cur, bc) ==
  LET lhs  == g - 1
      rhs  == g + 1
      bwd  == g - nX(p)
      fwd  == g + nX(p)
      down == g - nX(p) * nY(p)
      up   == g + nX(p) * nY(p)
      x    == xGrid2(p, g)
      v ==
        IF x[3] < 2 * zlo /\ ~gh[up]
          THEN BcLow(cfg.zbcflag, bc[5], prev, up, g + nX(p) * nY(p) * nz, cur)
        ELSE IF x[3] > 2 * zhi /\ ~gh[down]
          THEN BcHigh(cfg.zbcflag, bulk, prev, down, g - nX(p) * nY(p) * nz, cur)
        ELSE IF x[2] < 2 * ylo /\ ~gh[fwd]
          THEN BcLow(cfg.ybcflag, bc[3], prev, fwd, g + nX(p) * ny, cur)
        ELSE IF x[2] > 2 * yhi /\ ~gh[bwd]
          THEN BcHigh(cfg.ybcflag, bc[4], prev, bwd, g - nX(p) * ny, cur)
        ELSE IF x[1] < 2 * xlo /\ ~gh[rhs]
          THEN BcLow(cfg.xbcflag, bc[1], prev, rhs, g + nx, cur)
        ELSE IF x[1] > 2 * xhi /\ ~gh[lhs]
          THEN BcHigh(cfg.xbcflag, bc[2], prev, lhs, g - nx, cur)
        ELSE cur
  IN  Clamp(v)

(* compute_flux(), lines 601-639.                                          *)
RECURSIVE Deep(_, _)
Deep(gh, hgrid) == IF gh[hgrid] THEN 0 ELSE 1 + Deep(gh, hgrid - 1)

\* mutant: the uptake rate is added after the multiplication by diffT
ComputeFlux_RateUnscaled(p, gh, cellDNu, prev, rateNu, g) ==
  LET jX == ((cellDNu * (prev[g + 1] - prev[g])) \div stepx
               - (cellDNu * (prev[g] - prev[g - 1])) \div stepx) \div stepx
      jY == ((cellDNu * (prev[g + nX(p)] - prev[g])) \div stepy
               - (cellDNu * (prev[g] - prev[g - nX(p)])) \div stepy) \div stepy
      jZ == ((cellDNu * (prev[g + nX(p) * nY(p)] - prev[g])) \div stepz
               - (cellDNu * (prev[g] - prev[g - nX(p) * nY(p)])) \div stepz) \div stepz
      shear == IF cfg.shearRate # 0
               THEN (cfg.shearRate * (2 * Deep(gh, g) * stepz - stepz)
                       * (prev[g + 1] - prev[g - 1])) \div (4 * stepz)
               ELSE 0
  IN  prev[g] + (jX + jY + jZ - shear) * diffT + rateNu

ComputeFlux(p, gh, cellDNu, prev, rateNu, g) ==
  LET lhs  == g - 1
      rhs  == g + 1
      bwd  == g - nX(p)
      fwd  == g + nX(p)
      down == g - nX(p) * nY(p)
      up   == g + nX(p) * nY(p)
      jRight    == (cellDNu * (prev[rhs] - prev[g])) \div stepx
      jLeft     == (cellDNu * (prev[g] - prev[lhs])) \div stepx
      jX        == (jRight - jLeft) \div stepx
      jForward  == (cellDNu * (prev[fwd] - prev[g])) \div stepy
      jBackward == (cellDNu * (prev[g] - prev[bwd])) \div stepy
      jY        == (jForward - jBackward) \div stepy
      jUp       == (cellDNu * (prev[up] - prev[g])) \div stepz
      jDown     == (cellDNu * (prev[g] - prev[down])) \div stepz
      jZ        == (jUp - jDown) \div stepz
      shear     == IF cfg.shearRate # 0
                   THEN (cfg.shearRate * (2 * Deep(gh, g) * stepz - stepz)
                           * (prev[rhs] - prev[lhs])) \div (4 * stepz)
                   ELSE 0
      res       == (jX + jY + jZ + rateNu - shear) * diffT
  IN  prev[g] + res

(* diffusion(), lines 374-434, for one stepped species of one process:     *)
(* `cur` is nuGrid[.][i] after the exchange.                               *)
Snapshot(n, cur, old) == [g \in DOMAIN cur |-> IF g < n THEN cur[g] ELSE old[g]]

StepCells(p, gh, n, i, cur, prev, rates, bulk, bc) ==
  [g \in DOMAIN cur |->
     IF g >= n THEN cur[g]
     ELSE IF ~gh[g]
          THEN Clamp(ComputeFlux(p, gh, bio.diffCoeff[i], prev, rates[Ind(p, g)], g))
          ELSE ComputeBc(p, gh, prev, g, bulk, cur[g], bc)]

\* mutant: the rate stays in the accumulator after it was applied
ClearRates_Keep(p, gh, n, rates) == rates

ClearRates(p, gh, n, rates) ==
  LET cleared == {Ind(p, g) : g \in {h \in Cells(p) : h < n /\ ~gh[h]}}
  IN  [k \in DOMAIN rates |-> IF k \in cleared THEN 0 ELSE rates[k]]

Abs(v) == IF v < 0 THEN 0 - v ELSE v

(* lines 385, 409-412: maxS over the cells of the loop                     *)
MaxUpTo(f, n) ==
  LET vals == {0} \cup {f[g] : g \in 0..n}
  IN  CHOOSE m \in vals : \A v \in vals : v <= m

\* the number 1 of `(maxS == 0) ? 1 : maxS`, in the unit of the concentrations
One == 1000000

(* loop_setup_thr (thr_omp.h): the cells of thread tid, idelta = 1 + inum / *)
(* nthreads, ifrom = tid * idelta, ito = min(ifrom + idelta, inum).         *)
Chunk(n, nthreads, tid) ==
  LET idelta == 1 + n \div nthreads
      ifrom  == tid * idelta
      ito    == IF ifrom + idelta > n THEN n ELSE ifrom + idelta
  IN  ifrom..(ito - 1)

(* lines 376-377 and 414-428: no barrier separates the check of species i  *)
(* from `single nowait: maxS = 0` of the next stepped species, so a thread  *)
(* that is still checking may read maxS as 0.  late = 0: no thread is late; *)
(* late = t: thread t - 1 checks its cells after the reset.                 *)
Zeroed(n, i, stepped, late) ==
  IF late > 0 /\ cfg.nthreads > 1 /\ (\E j \in stepped : j > i)
  THEN Chunk(n, cfg.nthreads, late - 1)
  ELSE {}

LateChoices == IF cfg.nthreads > 1 THEN 0..cfg.nthreads ELSE {0}

\* mutant: the ghost cells are tested as well
LocalVerdict_GhostsToo(gh, n, new, prev, zeroed) ==
  LET maxS == MaxUpTo(new, n - 1)
      div  == IF maxS = 0 THEN One ELSE maxS
  IN  \A g \in DOMAIN new :
        g < n => Abs(new[g] - prev[g]) * TolDen
                   < TolNum * (IF g \in zeroed THEN One ELSE div)

(* lines 409-428: maxS over the cells of the loop; |new/div - prev/div| <   *)
(* tol in every true cell, div = maxS or 1                                  *)
LocalVerdict(gh, n, new, prev, zeroed) ==
  LET maxS == MaxUpTo(new, n - 1)
      div  == IF maxS = 0 THEN One ELSE maxS
  IN  \A g \in DOMAIN new :
        (g < n /\ ~gh[g]) => Abs(new[g] - prev[g]) * TolDen
                               < TolNum * (IF g \in zeroed THEN One ELSE div)

(* A function compared with itself is held as a table of its values, not   *)
(* as a rule that is re-evaluated at every application.                    *)
Table(f) == IF f = f THEN f ELSE f

(* One diffusion() call on every process: update_grids on the first        *)
(* iteration, the exchange, the bulk update, the step of each species.     *)
DiffusionCall(flags, iter, rates) ==
  LET regrid == iter = 1 /\ cfg.bl > 0
      gh   == Table([p \in Procs |->
                 IF regrid THEN UpdatedGhost(p, ghost[p], cfg.bnz) ELSE ghost[p]])
      n    == Table([p \in Procs |->
                 IF regrid THEN UpdatedNXYZ(p, cfg.bnz) ELSE nXYZ[p]])
      cur  == IF nprocs < 2 THEN nuGrid ELSE Table(Exchange(nuGrid))
      bulk == Table([p \in Procs |-> BulkAfter(p, iter, rates)])
      bc   == Table(BcMembers(bio, cfg.unit))
      prev == Table([p \in Procs |-> [i \in Species(bio) |->
                 IF Stepped(bio, flags, i)
                 THEN Snapshot(n[p], cur[p][i], nuPrev[p][i])
                 ELSE nuPrev[p][i]]])
      new  == Table([p \in Procs |-> [i \in Species(bio) |->
                 IF Stepped(bio, flags, i)
                 THEN StepCells(p, gh[p], n[p], i, cur[p][i], prev[p][i],
                                rates[p][i], bulk[p][i], bc)
                 ELSE cur[p][i]]])
  IN  [ ghost |-> gh, nXYZ |-> n, nuBS |-> bulk, nuPrev |-> prev, nuGrid |-> new,
        nuR |-> [p \in Procs |-> [i \in Species(bio) |->
                   IF Stepped(bio, flags, i)
                   THEN ClearRates(p, gh[p], n[p], rates[p][i])
                   ELSE rates[p][i]]],
        bulked |-> {i \in Species(bio) : BulkEligible(bio, i, iter)} ]

(* conv[i] of every process at the end of the call d, lines 414-431.       *)
Verdicts(d, flags, late) ==
  [p \in Procs |-> [i \in SteppedSet(bio, flags) |->
     LocalVerdict(d.ghost[p], d.nXYZ[p], d.nuGrid[p][i], d.nuPrev[p][i],
                  Zeroed(d.nXYZ[p], i, SteppedSet(bio, flags), late))]]
-----------------------------------------------------------------------------
NoCalls == [ph |-> 0, activity |-> 0, thermo |-> 0, growthDiff |-> 0,
            diffusion |-> 0, growthFull |-> 0]

(* The fixes FixKinetics::init (lines 133-149) finds registered, and the   *)
(* number of processes of the run.                                         *)
Fixes(ph, thermo, monod, diffusion) ==
  [ph |-> ph, thermo |-> thermo, monod |-> monod, diffusion |-> diffusion]

LoopSetups ==
  { [fixes |-> Fixes(TRUE,  TRUE,  TRUE,  TRUE),  nprocs |-> 2],
    [fixes |-> Fixes(FALSE, FALSE, FALSE, TRUE),  nprocs |-> 1],
    [fixes |-> Fixes(TRUE,  TRUE,  TRUE,  FALSE), nprocs |-> 1],
    [fixes |-> Fixes(FALSE, TRUE,  FALSE, FALSE), nprocs |-> 2],
    [fixes |-> Fixes(FALSE, FALSE, TRUE,  FALSE), nprocs |-> 1],
    [fixes |-> Fixes(FALSE, FALSE, FALSE, FALSE), nprocs |-> 2] }

FlagBytes(b) == 0..(Len(b.nuName) + SizeofInt - 1)

InitLoopCore ==
  /\ pc = "idle"
  /\ iteration = 0
  /\ isConv = FALSE
  /\ nuConv = [j \in FlagBytes(bio) |-> FALSE]
  /\ calls = NoCalls
  /\ printed = <<>>
  /\ reported = 0
  /\ lastConv = nuConv
  /\ localConv = <<>>
  /\ exitBy = "none"
  /\ order = <<>>
  /\ growthDt = 0
  /\ nevery = 1
  /\ ntimestep = 0
  /\ preForced = 0 - 1
  /\ NoHalo

InitLoopVars == InitLoopCore /\ NoExtra

(* SpecLoop keeps no field: the grid variables are empty.                  *)
InitLoop ==
  /\ bio \in LoopTables
  /\ \E s \in LoopSetups : fixes = s.fixes /\ nprocs = s.nprocs
  /\ InitLoopVars
  /\ cfg = <<>> /\ sub = <<>> /\ dims = <<>> /\ xGrid = <<>> /\ nuGrid = <<>> /\ nuPrev = <<>> /\ nuR = <<>> /\ nuBS = <<>>
  /\ ghost = <<>> /\ nXYZ = <<>> /\ steps = 0 /\ lastStepped = {}
  /\ bulkCalls = <<>> /\ firstPasses = 0 /\ lastRates = <<>>

(* The inputs of SpecGrid: two species each, the boundary kinds of the     *)
(* three axes, and the remaining parameters of fix kinetics/diffusion.     *)
GridTables ==
  { [nuName |-> <<"sub", "gco2">>, nuType |-> <<0, 1>>, diffCoeff |-> <<1, 0>>,
     iniS |-> << <<2, 5, 6, 7, 8, 9, 10>>, <<0, 1, 2, 3, 4, 5, 6>> >>],
    [nuName |-> <<"o2", "nh4">>,   nuType |-> <<0, 0>>, diffCoeff |-> <<1, 0>>,
     iniS |-> << <<3, 3, 3, 3, 3, 3, 3>>, <<0, 1, 2, 3, 4, 5, 6>> >>] }

\* every kind on every axis, every x and y kind with every z kind; the y
\* kind is the second kind after the x kind
BcKinds ==
  {k \in [xbcflag : 0..4, ybcflag : 0..4, zbcflag : 0..5] :
     (k.ybcflag - k.xbcflag) % 5 = 2}

GridEnvs ==
  { [nprocs |-> 1, unit |-> 1, shearRate |-> 0, q |-> 1, af |-> xhi * yhi,
     bl |-> 0, bnz |-> nz, nthreads |-> 1],
    [nprocs |-> 1, unit |-> 0, shearRate |-> 4, q |-> 0, af |-> 0 - 1,
     bl |-> 1, bnz |-> nz - 1, nthreads |-> 2],
    [nprocs |-> 2, unit |-> 0, shearRate |-> 0, q |-> 0 - 1, af |-> 0,
     bl |-> 0, bnz |-> nz, nthreads |-> 1],
    [nprocs |-> 2, unit |-> 1, shearRate |-> 0, q |-> 1, af |-> xhi * yhi,
     bl |-> 0, bnz |-> nz, nthreads |-> 2] }

\* the reaction rates monod->growth(diffT) may leave in nuR: one rate for
\* the cells of a process, the same on every process or not
RateSet == {0 - 3, 0, 1}
RateChoices ==
  {r \in [Procs -> RateSet] : \A p \in Procs : r[p] = r[0] \/ (r[0] = 0 /\ r[p] = 1)}

\* bound on the passes of one integration() and on the number of invocations
MaxSteps == 2

InitGrid ==
  /\ bio \in GridTables
  /\ fixes = Fixes(TRUE, TRUE, TRUE, TRUE)
  /\ \E k \in BcKinds, e \in GridEnvs :
       /\ nprocs = e.nprocs
       /\ cfg = [xbcflag |-> k.xbcflag, ybcflag |-> k.ybcflag, zbcflag |-> k.zbcflag,
                 unit |-> e.unit, shearRate |-> e.shearRate, q |-> e.q, af |-> e.af,
                 bl |-> e.bl, bnz |-> e.bnz, nthreads |-> e.nthreads]
  /\ InitLoopVars
  /\ sub   = [p \in Procs |-> SubBox(p)]
  /\ dims  = [p \in Procs |-> LocalDims(sub[p])]
  /\ xGrid = [p \in Procs |-> InitXGrid(p)]
  /\ nuGrid = [p \in Procs |-> InitConc(bio, cfg.unit, p, cfg.bnz)]
  /\ nuPrev = [p \in Procs |-> [nu \in Species(bio) |-> [g \in Cells(p) |-> 0]]]
  /\ nuR    = [p \in Procs |-> [nu \in Species(bio) |-> [k \in RateCells(p) |-> 0]]]
  /\ nuBS   = [p \in Procs |-> InitBulk(bio, cfg.unit)]
  /\ ghost  = [p \in Procs |-> InitGhost(p, cfg.bnz)]
  /\ nXYZ   = [p \in Procs |-> nX(p) * nY(p) * nZ(p)]
  /\ steps = 0
  /\ lastStepped = {}
  /\ bulkCalls = [i \in Species(bio) |-> 0]
  /\ firstPasses = 0
  /\ lastRates = nuR

(* integration(), lines 276-284.                                           *)
BeginAt(from) ==
  /\ pc = from
  /\ pc' = "loop"
  /\ iteration' = 0
  /\ isConv' = FALSE
  /\ nuConv' = InitFlags(bio, nuConv)
  /\ calls' = NoCalls
  /\ printed' = <<>>
  /\ reported' = 0
  /\ lastConv' = nuConv'
  /\ localConv' = <<>>
  /\ exitBy' = "none"
  /\ order' = <<>>
  /\ growthDt' = 0
  /\ UNCHANGED <<bio, fixes, nprocs, gridVars, auxVars>>

Begin == BeginAt("idle")

(* The calls of one pass of the while body, lines 290-294, in the order    *)
(* of the statements; "test" is the flag test of lines 297-302.            *)
Opt(present, name) == IF present THEN <<name>> ELSE <<>>

\* mutant: the stepper runs before the growth kinetics
PassOrder_DiffusionFirst ==
  (IF fixes.ph THEN <<"ph">> ELSE <<"activity">>)
    \o Opt(fixes.thermo, "thermo")
    \o Opt(fixes.diffusion, "diffusion")
    \o Opt(fixes.monod, "growthDiff")
    \o Opt(fixes.diffusion, "test")

PassOrder ==
  (IF fixes.ph THEN <<"ph">> ELSE <<"activity">>)
    \o Opt(fixes.thermo, "thermo")
    \o Opt(fixes.monod, "growthDiff")
    \o Opt(fixes.diffusion, "diffusion")
    \o Opt(fixes.diffusion, "test")

\* line 293: monod->growth(diffT)
PassGrowth == IF fixes.monod THEN diffT ELSE growthDt

(* One pass of the while body, lines 286-316.                              *)
BodyCalls(c) ==
  [c EXCEPT !.ph = IF fixes.ph THEN @ + 1 ELSE @,
            !.activity = IF fixes.ph THEN @ ELSE @ + 1,
            !.thermo = IF fixes.thermo THEN @ + 1 ELSE @,
            !.growthDiff = IF fixes.monod THEN @ + 1 ELSE @,
            !.diffusion = IF fixes.diffusion THEN @ + 1 ELSE @]

\* mutant: the `else break` is missing, the pass goes on to the flag test
IterateNoDiffusion_NoBreak ==
  /\ pc = "loop" /\ ~isConv
  /\ ~fixes.diffusion
  /\ iteration' = iteration + 1
  /\ isConv' = (AllConverged(bio, nuConv) \/ CapReached(iteration + 1))
  /\ calls' = BodyCalls(calls)
  /\ pc' = "loop"
  /\ exitBy' = "none"
  /\ order' = PassOrder
  /\ growthDt' = PassGrowth
  /\ UNCHANGED <<nuConv, bio, fixes, nprocs, printed, reported, lastConv, localConv,
                 gridVars, auxVars>>

IterateNoDiffusion ==
  /\ pc = "loop" /\ ~isConv
  /\ ~fixes.diffusion
  /\ iteration' = iteration + 1
  /\ isConv' = TRUE
  /\ calls' = BodyCalls(calls)
  /\ pc' = "exit"
  /\ exitBy' = "break"
  /\ order' = PassOrder
  /\ growthDt' = PassGrowth
  /\ UNCHANGED <<nuConv, bio, fixes, nprocs, printed, reported, lastConv, localConv,
                 gridVars, auxVars>>

(* The rest of the pass once diffusion() has returned, lines 294-312.      *)
AfterDiffusion(returned) ==
  LET it   == iteration + 1
      conv == AllConverged(bio, returned)
  IN  /\ iteration' = it
      /\ calls' = BodyCalls(calls)
      /\ lastConv' = returned
      /\ IF CapReached(it)
         THEN /\ isConv' = TRUE
              /\ printed' = ForcedFrom(bio, returned, 1)
              /\ nuConv' = ForceFlags(bio, returned)
              /\ exitBy' = IF conv THEN "converged" ELSE "cap"
         ELSE /\ isConv' = conv
              /\ printed' = printed
              /\ nuConv' = returned
              /\ exitBy' = IF conv THEN "converged" ELSE "none"
      /\ pc' = "loop"
      /\ order' = PassOrder
      /\ growthDt' = PassGrowth
      /\ UNCHANGED <<bio, fixes, nprocs, reported>>

(* SpecLoop: the stepper may return any verdict for a stepped species.     *)
Iterate ==
  /\ pc = "loop" /\ ~isConv
  /\ fixes.diffusion
  /\ \E verdicts \in [Procs -> [SteppedSet(bio, nuConv) -> BOOLEAN]] :
       /\ AfterDiffusion(DiffusionFlags(bio, nuConv, verdicts))
       /\ localConv' = verdicts
  /\ UNCHANGED <<gridVars, auxVars>>

(* monod->growth(diffT), line 293: the kinetics refill the reaction rates. *)
Growth(r) ==
  IF fixes.monod
  THEN [p \in Procs |-> [nu \in Species(bio) |->
          [k \in RateCells(p) |->
             IF k \in LocalRateCells(p) THEN r[p] ELSE nuR[p][nu][k]]]]
  ELSE nuR

(* SpecGrid: the pass with the stepper run on the grid.                    *)
IterateGrid ==
  /\ pc = "loop" /\ ~isConv
  /\ fixes.diffusion
  /\ iteration < MaxSteps
  /\ iteration = 0 => firstPasses < MaxSteps
  /\ \E r \in RateChoices :
       \E d \in {DiffusionCall(nuConv, iteration + 1, Table(Growth(r)))} :
           /\ lastRates' = Growth(r)
           /\ nuGrid' = d.nuGrid
           /\ nuPrev' = d.nuPrev
           /\ nuR' = d.nuR
           /\ nuBS' = d.nuBS
           /\ ghost' = d.ghost
           /\ nXYZ' = d.nXYZ
           /\ bulkCalls' = [i \in Species(bio) |->
                              IF i \in d.bulked THEN bulkCalls[i] + 1 ELSE bulkCalls[i]]
  /\ \E late \in LateChoices :
       \E v \in {Verdicts([ghost |-> ghost', nXYZ |-> nXYZ', nuGrid |-> nuGrid',
                          nuPrev |-> nuPrev'], nuConv, late)} :
           /\ AfterDiffusion(DiffusionFlags(bio, nuConv, v))
           /\ localConv' = v
  /\ steps' = steps + 1
  /\ lastStepped' = SteppedSet(bio, nuConv)
  /\ firstPasses' = IF iteration + 1 = 1 THEN firstPasses + 1 ELSE firstPasses
  /\ UNCHANGED <<cfg, sub, dims, xGrid, auxVars>>

\* update->dt
dt == 3

\* line 320: monod->growth(update->dt * nevery)
FullGrowth == IF fixes.monod THEN dt * nevery ELSE growthDt

(* integration(), lines 318-320, after the loop.                           *)
Finish ==
  /\ \/ pc = "loop" /\ isConv
     \/ pc = "exit"
  /\ reported' = iteration
  /\ calls' = [calls EXCEPT !.growthFull = IF fixes.monod THEN @ + 1 ELSE @]
  /\ pc' = "idle"
  /\ order' = order \o Opt(fixes.monod, "growthFull")
  /\ growthDt' = FullGrowth
  /\ UNCHANGED <<iteration, isConv, nuConv, bio, fixes, nprocs, printed,
                 lastConv, localConv, exitBy, gridVars, auxVars>>

NextLoop == Begin \/ IterateNoDiffusion \/ Iterate \/ Finish

SpecLoop == InitLoop /\ [][NextLoop]_vars

(* integration() is straight-line sequential code: once called, the loop   *)
(* body and the code after the loop run; nothing obliges the driver to     *)
(* call pre_force again.                                                   *)
(* The five-species table takes part on one process; on two processes the  *)
(* stepper runs on the tables of up to three species.                      *)
InitLoopFair ==
  InitLoop /\ ((nprocs > 1 /\ fixes.diffusion) => Len(bio.nuName) <= 3)

SpecLoopFair ==
  /\ InitLoopFair /\ [][NextLoop]_vars
  /\ WF_vars(IterateNoDiffusion) /\ WF_vars(Iterate) /\ WF_vars(Finish)

NextGrid == Begin \/ IterateGrid \/ Finish

SpecGrid == InitGrid /\ [][NextGrid]_vars


-----------------------------------------------------------------------------
(* SpecGas: fix nufeb/gas_liquid (src/USER-NUFEB/fix_gas_liquid.cpp).      *)
(* modify_param is followed pass by pass of its while loop; post_integrate *)
(* is one step.  Rates are integers; h, temp, mw and rg keep the value 1.0 *)
(* the constructor gives them.                                             *)

\* bound on the length of the argument list of fix_modify
MaxArgs == 3

\* the words of an argument list: the keyword the fix knows, its two
\* values, and a keyword it does not know
Words == {"compute", "yes", "no", "energy"}

ArgLists == UNION {[1..n -> Words] : n \in 0..MaxArgs}

\* grid->ncells cells
GasCells == 0..2

\* grid->mask[i] & GHOST_MASK, and kga
GasSetups ==
  [mask : {m \in [GasCells -> BOOLEAN] : \E i \in GasCells : ~m[i]}, kga : {0, 2}]

NoRates == [s \in {"gas", "liquid"} |-> [i \in GasCells |-> 0]]

InitGas ==
  /\ bio \in {b \in LoopTables : Len(b.nuName) = 2}
  /\ fixes = Fixes(FALSE, FALSE, FALSE, FALSE)
  /\ nprocs = 1
  /\ InitLoopCore
  /\ NoThreads /\ NoRanks
  /\ cfg = <<>> /\ sub = <<>> /\ dims = <<>> /\ xGrid = <<>> /\ nuGrid = <<>>
  /\ nuPrev = <<>> /\ nuR = <<>> /\ nuBS = <<>>
  /\ ghost = <<>> /\ nXYZ = <<>> /\ steps = 0 /\ lastStepped = {}
  /\ bulkCalls = <<>> /\ firstPasses = 0 /\ lastRates = <<>>
  /\ gpc = "ready"
  /\ garg = <<>> /\ iarg = 0 /\ gret = 0 /\ spins = 0
  /\ compute_flag = 1
  /\ reac = NoRates
  /\ \E g \in GasSetups :
       gas = [mask |-> g.mask, kga |-> g.kga, conc |-> [i \in GasCells |-> i + 2],
              bulk |-> 1, calls |-> 0]

gasFrame == <<loopVars, gridVars, nevery, ntimestep, preForced, halo, sendbuff,
              recvbuff, buffSize, packed, threadVars, rankVars>>

narg == Len(garg)

\* fix_modify hands its arguments to modify_param: int iarg = 0, line 92
ModifyParam ==
  /\ gpc = "ready"
  /\ \E a \in ArgLists : garg' = a
  /\ iarg' = 0 /\ spins' = 0
  /\ gpc' = "parse"
  /\ UNCHANGED <<gasFrame, undefined, compute_flag, gret, reac, gas>>

(* arg[iarg+1] of line 95: with "compute" as the last word the read is of  *)
(* arg[narg], which is no argument of the command.                         *)
ValueAt(k) == IF k + 1 < narg THEN {garg[k + 2]} ELSE Words

(* lines 93-102: a pass of the loop whose word is "compute"                *)
ParseCompute ==
  /\ gpc = "parse" /\ iarg < narg
  /\ garg[iarg + 1] = "compute"
  /\ \E v \in ValueAt(iarg) :
       IF v = "yes"
       THEN compute_flag' = 1 /\ iarg' = iarg + 2 /\ gpc' = "parse"
       ELSE IF v = "no"
       THEN compute_flag' = 0 /\ iarg' = iarg + 2 /\ gpc' = "parse"
       ELSE UNCHANGED <<compute_flag, iarg>> /\ gpc' = "error"
  /\ undefined' = IF iarg + 1 < narg THEN undefined ELSE undefined \cup {<<0, "arg">>}
  /\ spins' = 0
  /\ UNCHANGED <<gasFrame, garg, gret, reac, gas>>

(* lines 93-94, 103-104: a pass of the loop whose word is not "compute";   *)
(* the if has no else and iarg stays.                                      *)
ParseOther ==
  /\ gpc = "parse" /\ iarg < narg
  /\ garg[iarg + 1] # "compute"
  /\ spins' = IF spins = 2 THEN 1 ELSE spins + 1
  /\ UNCHANGED <<gasFrame, undefined, gpc, garg, iarg, compute_flag, gret, reac, gas>>

\* lines 93, 105: the loop test fails, return iarg
ParseReturn ==
  /\ gpc = "parse" /\ ~(iarg < narg)
  /\ gret' = iarg
  /\ gpc' = "ready"
  /\ UNCHANGED <<gasFrame, undefined, garg, iarg, compute_flag, spins, reac, gas>>

(* compute(), lines 127-143, with h = mw = rg = temp = 1                   *)
Transferred(r, g) ==
  [s \in DOMAIN r |-> [i \in GasCells |->
     LET p_g2l == g.kga * (g.conc[i] - g.bulk)
         n_l2g == 0 - p_g2l
     IN  IF g.mask[i] THEN r[s][i]
         ELSE IF s = "gas" THEN r[s][i] + p_g2l ELSE r[s][i] + n_l2g]]

\* post_integrate(), lines 119-123
PostIntegrate ==
  /\ gpc = "ready"
  /\ gas.calls < MaxSteps
  /\ reac' = IF compute_flag # 0 THEN Transferred(reac, gas) ELSE reac
  /\ gas' = [gas EXCEPT !.calls = @ + 1]
  /\ UNCHANGED <<gasFrame, undefined, gpc, garg, iarg, compute_flag, gret, spins>>

NextGas == ModifyParam \/ ParseCompute \/ ParseOther \/ ParseReturn \/ PostIntegrate

(* modify_param is sequential code: once called, its loop runs on.         *)
SpecGas ==
  /\ InitGas /\ [][NextGas]_vars
  /\ WF_vars(ParseCompute) /\ WF_vars(ParseOther) /\ WF_vars(ParseReturn)
-----------------------------------------------------------------------------
(* The halo exchange of FixKineticsDiffusion::diffusion, lines 303-345,    *)
(* with its buffers.  SpecHalo runs it on processes in a row along x, each *)
(* with one layer of true cells between two ghost layers of FaceSize cells *)
(* (cell x * FaceSize + f, x = 0 ghost, 1 true, 2 ghost).                  *)

\* #define BUFMIN 1000
BUFMIN == 1000

\* what a read of memory that was never validly written may give
Junk == 0 - 1

FaceSizes == {1, 2, 501}

HaloSetups ==
  [nprocs : {2, 3}, face : FaceSizes, periodic : BOOLEAN]

(* kinetics->sendcells, sendbegin, sendend, recvcells, recvbegin, recvend  *)
(* are built outside the files at hand: the lists of a row of processes.   *)
LeftOf(h, p)  == IF p > 0 THEN p - 1 ELSE IF h.periodic THEN h.nprocs - 1 ELSE 0 - 1
RightOf(h, p) == IF p < h.nprocs - 1 THEN p + 1 ELSE IF h.periodic THEN 0 ELSE 0 - 1

Column(h, x) == [k \in 1..h.face |-> x * h.face + (k - 1)]

SendList(h, p, q) ==
  IF q = p THEN <<>>
  ELSE (IF q = RightOf(h, p) THEN Column(h, 1) ELSE <<>>)
         \o (IF q = LeftOf(h, p) THEN Column(h, 1) ELSE <<>>)

RecvList(h, p, q) ==
  IF q = p THEN <<>>
  ELSE (IF q = LeftOf(h, p) THEN Column(h, 0) ELSE <<>>)
         \o (IF q = RightOf(h, p) THEN Column(h, 2) ELSE <<>>)

RECURSIVE Concat(_, _, _)
Concat(lists, q, n) == IF q >= n THEN <<>> ELSE lists[q] \o Concat(lists, q + 1, n)

RECURSIVE LenBefore(_, _)
LenBefore(lists, q) == IF q <= 0 THEN 0 ELSE Len(lists[q - 1]) + LenBefore(lists, q - 1)

HaloLists(h, p) ==
  LET s == [q \in 0..(h.nprocs - 1) |-> SendList(h, p, q)]
      r == [q \in 0..(h.nprocs - 1) |-> RecvList(h, p, q)]
  IN  [ sendcells |-> Concat(s, 0, h.nprocs),
        sendbegin |-> [q \in 0..(h.nprocs - 1) |-> LenBefore(s, q)],
        sendend   |-> [q \in 0..(h.nprocs - 1) |-> LenBefore(s, q + 1)],
        recvcells |-> Concat(r, 0, h.nprocs),
        recvbegin |-> [q \in 0..(h.nprocs - 1) |-> LenBefore(r, q)],
        recvend   |-> [q \in 0..(h.nprocs - 1) |-> LenBefore(r, q + 1)] ]

\* the field before the exchange: every value names its process, species, cell
HaloField(h, b) ==
  [p \in 0..(h.nprocs - 1) |-> [nu \in Species(b) |->
     [g \in 0..(3 * h.face - 1) |-> (p + 1) * 100000 + nu * 10000 + g]]]

-----------------------------------------------------------------------------
(* lines 303-311: the buffers grow when they hold fewer doubles than there *)
(* are cells to move.                                                      *)
GrownSize(size, ncells) ==
  IF size < ncells THEN size + ((ncells * nnus) \div BUFMIN + 1) * BUFMIN ELSE size

(* lines 319-325: copy(begin, end, sendbuff + c * nnus), begin the address *)
(* of species 1 of cell sendcells[c]                                       *)
Packed(p) ==
  [k \in 1..(Len(halo[p].sendcells) * nnus) |->
     LET c  == (k - 1) \div nnus
         nu == ((k - 1) % nnus) + 1
     IN  nuGrid[p][nu][halo[p].sendcells[c + 1]]]

(* lines 327-337: the requests a process posts, one per non-empty receive  *)
(* and one per non-empty send                                              *)
Requests(p) ==
  Cardinality({q \in Procs \ {p} : halo[p].recvend[q] - halo[p].recvbegin[q] > 0})
  + Cardinality({q \in Procs \ {p} : halo[p].sendend[q] - halo[p].sendbegin[q] > 0})

(* lines 330-339: the doubles process p receives, in the order of its      *)
(* receive buffer: the segment of q holds what q sent to p.                *)
Segment(buf, from, n) == [k \in 1..n |-> buf[from + k]]

Received(p) ==
  LET part == [q \in Procs |->
                 IF q = p THEN <<>>
                 ELSE Segment(sendbuff[q], halo[q].sendbegin[p] * nnus,
                              (halo[p].recvend[q] - halo[p].recvbegin[q]) * nnus)]
  IN  Concat(part, 0, nprocs)

(* lines 341-345: copy(begin, end, &nuGrid[recvcells[c]][1])                *)
Unpacked(p, buf) ==
  [nu \in Species(bio) |->
     [g \in DOMAIN nuGrid[p][nu] |->
        IF \E c \in 1..Len(halo[p].recvcells) : halo[p].recvcells[c] = g
        THEN LET c == CHOOSE c \in 1..Len(halo[p].recvcells) : halo[p].recvcells[c] = g
             IN  buf[(c - 1) * nnus + nu]
        ELSE nuGrid[p][nu][g]]]

-----------------------------------------------------------------------------
(* SpecHalo: one exchange, from the buffers as the constructor left them.  *)

InitHalo ==
  /\ bio \in LoopTables
  /\ fixes = Fixes(TRUE, TRUE, TRUE, TRUE)
  /\ \E h \in HaloSetups :
       /\ nprocs = h.nprocs
       /\ cfg = h
       /\ halo = [p \in 0..(h.nprocs - 1) |-> HaloLists(h, p)]
       /\ nuGrid = HaloField(h, bio)
       /\ buffSize = [p \in 0..(h.nprocs - 1) |-> [send |-> BUFMIN, recv |-> BUFMIN]]
       /\ sendbuff = [p \in 0..(h.nprocs - 1) |-> <<>>]
       /\ recvbuff = [p \in 0..(h.nprocs - 1) |-> <<>>]
  /\ pc = "pack"
  /\ packed = <<>> /\ undefined = {} /\ NoExtra
  /\ iteration = 0 /\ isConv = FALSE
  /\ nuConv = [j \in FlagBytes(bio) |-> FALSE]
  /\ calls = NoCalls /\ printed = <<>> /\ reported = 0 /\ lastConv = nuConv /\ localConv = <<>>
  /\ exitBy = "none" /\ order = <<>> /\ growthDt = 0 /\ nevery = 1 /\ ntimestep = 0
  /\ preForced = 0 - 1
  /\ sub = <<>> /\ dims = <<>> /\ xGrid = <<>> /\ nuPrev = <<>>
  /\ nuR = <<>> /\ nuBS = <<>> /\ ghost = <<>> /\ nXYZ = <<>> /\ steps = 0
  /\ lastStepped = {} /\ bulkCalls = <<>> /\ firstPasses = 0 /\ lastRates = <<>>

haloFrame == <<iteration, isConv, nuConv, bio, fixes, nprocs, calls, printed, reported,
               lastConv, localConv, exitBy, order, growthDt, nevery, ntimestep, preForced, cfg, sub, dims, xGrid,
               nuPrev, nuR, nuBS, ghost, nXYZ, steps, lastStepped, bulkCalls,
               firstPasses, lastRates, halo, extraVars>>

(* lines 303-325: grow the buffers, then pack.  A copy that ends past      *)
(* send_buff_size doubles writes outside sendbuff.                         *)
Pack ==
  /\ pc = "pack"
  /\ buffSize' = [p \in Procs |->
       [send |-> GrownSize(buffSize[p].send, Len(halo[p].sendcells)),
        recv |-> GrownSize(buffSize[p].recv, Len(halo[p].recvcells))]]
  /\ sendbuff' = [p \in Procs |-> Packed(p)]
  /\ packed' = nuGrid
  /\ undefined' = undefined \cup
       {<<p, "sendbuff">> : p \in {r \in Procs : Len(Packed(r)) > buffSize'[r].send}}
  /\ pc' = "transfer"
  /\ UNCHANGED <<haloFrame, nuGrid, recvbuff>>

(* lines 327-339: MPI_Irecv and MPI_Isend per peer, then MPI_Waitall.      *)
(* requests and status have nprocs slots; a receive that ends past         *)
(* recv_buff_size doubles writes outside recvbuff.                         *)
Transfer ==
  /\ pc = "transfer"
  /\ recvbuff' = [p \in Procs |-> Received(p)]
  /\ undefined' = undefined
       \cup {<<p, "requests">> : p \in {r \in Procs : Requests(r) > nprocs}}
       \cup {<<p, "recvbuff">> : p \in {r \in Procs : Len(Received(r)) > buffSize[r].recv}}
  /\ pc' = "unpack"
  /\ UNCHANGED <<haloFrame, nuGrid, sendbuff, buffSize, packed>>

(* lines 341-345: unpack.  After a write outside an array the doubles a    *)
(* process reads from its heap are what was sent or anything else.         *)
Unpack ==
  /\ pc = "unpack"
  /\ \E bad \in SUBSET {p \in Procs : undefined # {}} :
       nuGrid' = [p \in Procs |->
          IF p \in bad
          THEN Unpacked(p, [k \in DOMAIN recvbuff[p] |-> Junk])
          ELSE Unpacked(p, recvbuff[p])]
  /\ pc' = "done"
  /\ UNCHANGED <<haloFrame, sendbuff, recvbuff, buffSize, packed, undefined>>

NextHalo == Pack \/ Transfer \/ Unpack

SpecHalo == InitHalo /\ [][NextHalo]_vars
-----------------------------------------------------------------------------
(* The cell sizes of FixKineticsDiffusion::init, lines 209-214.  Lengths   *)
(* are integers counting halves of 1e-10, so that a difference can fall    *)
(* below, on and above the tolerance.                                      *)

\* double epsilon = 1e-10, in halves of 1e-10
epsilon == 2

(* isEuqal(), lines 645-652: the three tests of the condition are the same *)
(* expression, fabs(a - b) > epsilon.                                      *)
isEuqal(a, b, c) ==
  IF (Abs(a - b) > epsilon) \/ (Abs(a - b) > epsilon) \/ (Abs(a - b) > epsilon)
  THEN FALSE
  ELSE TRUE

\* the box lengths and cell counts the check is run on
BoxLengths == {20, 22, 24, 26}
CellCounts == {1, 2}

(* init(), lines 209-211                                                   *)
CellSizes(box) == [stepx |-> box.lx \div box.nx, stepy |-> box.ly \div box.ny,
                   stepz |-> box.lz \div box.nz]

(* SpecInit: the box and the cell counts are drawn; init() computes the    *)
(* cell sizes and stops with "Grid is not cubic" or goes on.               *)
InitBox ==
  /\ bio \in {b \in LoopTables : Len(b.nuName) = 2}
  /\ fixes = Fixes(TRUE, TRUE, TRUE, TRUE)
  /\ nprocs = 1
  /\ pc = "init"
  /\ iteration = 0 /\ isConv = FALSE
  /\ nuConv = [j \in FlagBytes(bio) |-> FALSE]
  /\ calls = NoCalls /\ printed = <<>> /\ reported = 0 /\ lastConv = nuConv /\ localConv = <<>>
  /\ exitBy = "none" /\ order = <<>> /\ growthDt = 0 /\ nevery = 1 /\ ntimestep = 0
  /\ preForced = 0 - 1 /\ NoHalo /\ NoExtra
  /\ cfg \in [lx : BoxLengths, ly : BoxLengths, lz : BoxLengths,
               nx : CellCounts, ny : CellCounts, nz : CellCounts]
  /\ sub = <<>> /\ dims = <<>> /\ xGrid = <<>> /\ nuGrid = <<>> /\ nuPrev = <<>>
  /\ nuR = <<>> /\ nuBS = <<>> /\ ghost = <<>> /\ nXYZ = <<>> /\ steps = 0
  /\ lastStepped = {} /\ bulkCalls = <<>> /\ firstPasses = 0 /\ lastRates = <<>>

(* init(), lines 209-214: error->all(FLERR, "Grid is not cubic")            *)
CubicCheck ==
  /\ pc = "init"
  /\ LET s == CellSizes(cfg)
     IN  pc' = IF isEuqal(s.stepx, s.stepy, s.stepz) THEN "ready" ELSE "error"
  /\ UNCHANGED <<iteration, isConv, nuConv, bio, fixes, nprocs, calls, printed,
                 reported, lastConv, localConv, exitBy, order, growthDt,
                 gridVars, auxVars>>

NextInit == CubicCheck

SpecInit == InitBox /\ [][NextInit]_vars

-----------------------------------------------------------------------------
(* SpecRanks: integration() run by every process on its own.  A process    *)
(* has its own iteration, isConv and nuConv; what the processes share are  *)
(* the messages of the halo exchange and the reductions.  The processes    *)
(* form a row, each exchanging cells with the one before and the one after *)
(* it.  MPI_Waitall returns once every peer has posted the matching        *)
(* exchange; the k-th MPI_Allreduce of a process returns once every        *)
(* process has entered its k-th MPI_Allreduce, with the and of the values. *)
(* Of the values given to the reductions and of the species stepped the    *)
(* latest two per process are kept, with their number.                     *)
(* The processes are taken up at line 286, with no pass behind them or     *)
(* with IterationCap - 1 passes in which no species has converged.         *)

\* comm->nprocs, and the ranks of the processes
RankCounts == 1..3
Ranks == 0..2

Starts == {0, IterationCap - 1}

\* what the initialisation and the passes so far have left in nuConv
StartFlags(b, s) ==
  LET init == InitFlags(b, [j \in FlagBytes(b) |-> FALSE])
  IN  IF s = 0 THEN init
      ELSE DiffusionFlags(b, init, <<[i \in SteppedSet(b, init) |-> FALSE]>>)

Row == [nprocs |-> nprocs, face |-> 1, periodic |-> FALSE]

\* the processes p posts a receive or a send for, lines 328-337
Peers(p) ==
  {q \in Procs \ {p} : Len(RecvList(Row, p, q)) > 0 \/ Len(SendList(Row, p, q)) > 0}

\* two liquid species that both converge late, a liquid and a gas, and a
\* table with exempt species
RankTables == GridTables \cup {b \in LoopTables : Len(b.nuName) = 3}

InitRanks ==
  /\ bio \in RankTables
  /\ \E s \in LoopSetups : fixes = s.fixes
  /\ nprocs \in RankCounts
  /\ InitLoopCore
  /\ NoThreads /\ NoGas
  /\ cfg = <<>> /\ sub = <<>> /\ dims = <<>> /\ xGrid = <<>> /\ nuGrid = <<>>
  /\ nuPrev = <<>> /\ nuR = <<>> /\ nuBS = <<>>
  /\ ghost = <<>> /\ nXYZ = <<>> /\ steps = 0 /\ lastStepped = {}
  /\ bulkCalls = <<>> /\ firstPasses = 0 /\ lastRates = <<>>
  /\ \E s \in Starts :
       rank = [p \in Procs |->
                 [pc |-> "top", start |-> s, iteration |-> s, isConv |-> FALSE,
                  nuConv |-> StartFlags(bio, s), conv |-> <<>>, i |-> 0]]
  /\ posted = [p \in Procs |-> 0]
  /\ given  = [p \in Procs |-> [n |-> 0, cur |-> TRUE, prev |-> TRUE]]
  /\ hist   = [p \in Procs |-> [n |-> 0, cur |-> {}, prev |-> {}]]

rankFrame == <<loopVars, gridVars, nevery, ntimestep, preForced, haloVars, threadVars,
               gasVars>>

(* integration(), lines 286-294: the loop test, iteration++, isConv = true *)
(* and the calls up to diffusion(); without the stepper, break.            *)
EnterPass(p) ==
  /\ rank[p].pc = "top" /\ ~rank[p].isConv
  /\ rank[p].iteration - rank[p].start < MaxSteps
  /\ rank' = [rank EXCEPT ![p].iteration = @ + 1,
                          ![p].isConv = TRUE,
                          ![p].pc = IF fixes.diffusion THEN "post" ELSE "out"]
  /\ UNCHANGED <<rankFrame, posted, given, hist>>

\* the while loop is left with isConv true, line 286
Leave(p) ==
  /\ rank[p].pc = "top" /\ rank[p].isConv
  /\ rank' = [rank EXCEPT ![p].pc = "out"]
  /\ UNCHANGED <<rankFrame, posted, given, hist>>

(* diffusion(), lines 319-337: pack, MPI_Irecv and MPI_Isend per peer      *)
Post(p) ==
  /\ rank[p].pc = "post"
  /\ posted' = [posted EXCEPT ![p] = @ + 1]
  /\ rank' = [rank EXCEPT ![p].pc = "wait"]
  /\ UNCHANGED <<rankFrame, given, hist>>

(* lines 339-431: MPI_Waitall, unpack, and the step of the species whose   *)
(* flag is false, which leaves conv[1..nnus]                               *)
Wait(p) ==
  /\ rank[p].pc = "wait"
  /\ \A q \in Peers(p) : posted[q] >= posted[p]
  /\ \E verdict \in [SteppedSet(bio, rank[p].nuConv) -> BOOLEAN] :
       rank' = [rank EXCEPT ![p].conv = LocalConv(bio, rank[p].nuConv, verdict),
                            ![p].i = 1,
                            ![p].pc = "reduce"]
  /\ hist' = [hist EXCEPT ![p] = [n |-> @.n + 1, prev |-> @.cur,
                                   cur |-> SteppedSet(bio, rank[p].nuConv)]]
  /\ UNCHANGED <<rankFrame, posted, given>>

\* lines 436-438: process p enters MPI_Allreduce with conv[i]
Contribute(p) ==
  /\ rank[p].pc = "reduce"
  /\ given' = [given EXCEPT ![p] = [n |-> @.n + 1, prev |-> @.cur,
                                     cur |-> rank[p].conv[rank[p].i]]]
  /\ rank' = [rank EXCEPT ![p].pc = "reducing"]
  /\ UNCHANGED <<rankFrame, posted, hist>>

\* every process has entered the k-th reduction
Complete(k) == \A q \in Procs : given[q].n >= k

\* what process q gave to the k-th reduction, its latest or the one before
Given(q, k) == IF given[q].n = k THEN given[q].cur ELSE given[q].prev

\* mutant: the outcome of a reduction is the process's own value
RoundResult_Own(p, k) == Given(p, k)

\* MPI_BAND over the values of all processes
RoundResult(p, k) == Band([q \in Procs |-> <<Given(q, k)>>], 1)

(* integration(), lines 297-312, on the flags of one process               *)
Tested(r) ==
  IF CapReached(r.iteration)
  THEN [r EXCEPT !.isConv = TRUE, !.nuConv = ForceFlags(bio, r.nuConv), !.pc = "top"]
  ELSE [r EXCEPT !.isConv = AllConverged(bio, r.nuConv), !.pc = "top"]

(* line 438 returns and stores the result at nuConv[i]; after the last     *)
(* species diffusion() returns and integration() tests the flags.          *)
Returned(p) ==
  /\ rank[p].pc = "reducing"
  /\ Complete(given[p].n)
  /\ LET r    == rank[p]
         next == [r EXCEPT !.nuConv = StoreInt(r.nuConv, r.i,
                                               RoundResult(p, given[p].n)),
                           !.i = r.i + 1,
                           !.pc = "reduce"]
     IN  rank' = [rank EXCEPT ![p] = IF next.i > nnus THEN Tested(next) ELSE next]
  /\ UNCHANGED <<rankFrame, posted, given, hist>>

NextRanks ==
  \/ \E p \in Procs : EnterPass(p)
  \/ \E p \in Procs : Post(p)
  \/ \E p \in Procs : Wait(p)
  \/ \E p \in Procs : Contribute(p)
  \/ \E p \in Procs : Returned(p)
  \/ \E p \in Procs : Leave(p)

(* Every process runs its own sequential code: a step it can take, it      *)
(* takes.                                                                  *)
SpecRanks ==
  /\ InitRanks /\ [][NextRanks]_vars
  /\ \A p \in Ranks :
       /\ WF_vars(p \in Procs /\ EnterPass(p)) /\ WF_vars(p \in Procs /\ Post(p))
       /\ WF_vars(p \in Procs /\ Wait(p)) /\ WF_vars(p \in Procs /\ Contribute(p))
       /\ WF_vars(p \in Procs /\ Returned(p)) /\ WF_vars(p \in Procs /\ Leave(p))

-----------------------------------------------------------------------------
(* SpecRegrid: the ghost flags from init() through the calls of            *)
(* update_grids(), on one process and on two, for every fill height.       *)

\* kinetics->bnz, the number of layers up to the fill height
FillLayers == 1..nz

RegridEnvs ==
  { [nprocs |-> n, unit |-> 1, shearRate |-> 0, q |-> 0, af |-> 0,
     bl |-> l, bnz |-> b, nthreads |-> 1] :
       n \in 1..2, l \in 0..1, b \in FillLayers }

InitRegrid ==
  /\ bio \in GridTables
  /\ fixes = Fixes(TRUE, TRUE, TRUE, TRUE)
  /\ \E k \in BcKinds, e \in RegridEnvs :
       /\ nprocs = e.nprocs
       /\ cfg = [xbcflag |-> k.xbcflag, ybcflag |-> k.ybcflag, zbcflag |-> k.zbcflag,
                 unit |-> e.unit, shearRate |-> e.shearRate, q |-> e.q, af |-> e.af,
                 bl |-> e.bl, bnz |-> e.bnz, nthreads |-> e.nthreads]
  /\ InitLoopVars
  /\ sub   = [p \in Procs |-> SubBox(p)]
  /\ dims  = [p \in Procs |-> LocalDims(sub[p])]
  /\ xGrid = [p \in Procs |-> InitXGrid(p)]
  /\ nuGrid = [p \in Procs |-> InitConc(bio, cfg.unit, p, cfg.bnz)]
  /\ nuPrev = [p \in Procs |-> [nu \in Species(bio) |-> [g \in Cells(p) |-> 0]]]
  /\ nuR    = [p \in Procs |-> [nu \in Species(bio) |-> [k \in RateCells(p) |-> 0]]]
  /\ nuBS   = [p \in Procs |-> InitBulk(bio, cfg.unit)]
  /\ ghost  = [p \in Procs |-> InitGhost(p, cfg.bnz)]
  /\ nXYZ   = [p \in Procs |-> nX(p) * nY(p) * nZ(p)]
  /\ steps = 0
  /\ lastStepped = {}
  /\ bulkCalls = [i \in Species(bio) |-> 0]
  /\ firstPasses = 0
  /\ lastRates = nuR

(* diffusion(), line 297, with update_grids(), lines 446-456: on the first *)
(* pass of an invocation every process recomputes bzhi, nXYZ and the flags *)
(* from the kinetics->bnz it finds.                                        *)
UpdateGrids ==
  /\ cfg.bl > 0
  /\ firstPasses < MaxSteps
  /\ \E b \in FillLayers :
       /\ cfg' = [cfg EXCEPT !.bnz = b]
       /\ ghost' = [p \in Procs |-> UpdatedGhost(p, ghost[p], b)]
       /\ nXYZ' = [p \in Procs |-> UpdatedNXYZ(p, b)]
  /\ firstPasses' = firstPasses + 1
  /\ UNCHANGED <<loopVars, sub, dims, xGrid, nuGrid, nuPrev, nuR, nuBS, steps,
                 lastStepped, bulkCalls, lastRates, auxVars>>

NextRegrid == UpdateGrids

SpecRegrid == InitRegrid /\ [][NextRegrid]_vars
-----------------------------------------------------------------------------
(* FixKinetics::pre_force, lines 266-272, called by the integrator once    *)
(* in every timestep.  SpecStep runs the timesteps 0..MaxTimestep.         *)

MaxTimestep == 2

NeveryValues == 0..2

StepSetups ==
  { Fixes(TRUE,  TRUE,  TRUE,  TRUE),
    Fixes(FALSE, FALSE, TRUE,  FALSE),
    Fixes(FALSE, TRUE,  FALSE, TRUE) }

InitStep ==
  /\ bio \in {b \in LoopTables : Len(b.nuName) = 3}
  /\ fixes \in StepSetups
  /\ nprocs = 1
  /\ pc = "idle"
  /\ iteration = 0
  /\ isConv = FALSE
  /\ nuConv = [j \in FlagBytes(bio) |-> FALSE]
  /\ calls = NoCalls
  /\ printed = <<>>
  /\ reported = 0
  /\ lastConv = nuConv
  /\ localConv = <<>>
  /\ exitBy = "none"
  /\ order = <<>>
  /\ growthDt = 0
  /\ nevery \in NeveryValues
  /\ ntimestep = 0
  /\ preForced = 0 - 1
  /\ NoHalo /\ NoExtra
  /\ cfg = <<>> /\ sub = <<>> /\ dims = <<>> /\ xGrid = <<>> /\ nuGrid = <<>>
  /\ nuPrev = <<>> /\ nuR = <<>> /\ nuBS = <<>> /\ ghost = <<>> /\ nXYZ = <<>>
  /\ steps = 0 /\ lastStepped = {} /\ bulkCalls = <<>> /\ firstPasses = 0
  /\ lastRates = <<>>

\* mutant: only `nevery == 0` is tested
Due_EveryStep == nevery # 0

\* lines 268-269: neither `return` is taken
Due == nevery # 0 /\ ntimestep % nevery = 0

(* pre_force up to the call of integration().                              *)
PreForce ==
  /\ pc = "idle"
  /\ preForced < ntimestep
  /\ preForced' = ntimestep
  /\ pc' = IF Due THEN "called" ELSE "idle"
  /\ UNCHANGED <<iteration, isConv, nuConv, bio, fixes, nprocs, calls, printed,
                 reported, lastConv, localConv, exitBy, order, growthDt,
                 gridVars, nevery, ntimestep, haloVars, extraVars>>

\* line 271: integration()
Integrate == BeginAt("called")

\* the integrator goes on to the next timestep
Advance ==
  /\ pc = "idle"
  /\ preForced = ntimestep
  /\ ntimestep < MaxTimestep
  /\ ntimestep' = ntimestep + 1
  /\ UNCHANGED <<loopVars, gridVars, nevery, preForced, haloVars, extraVars>>

NextStep == PreForce \/ Integrate \/ IterateNoDiffusion \/ Iterate \/ Finish \/ Advance

SpecStep == InitStep /\ [][NextStep]_vars
-----------------------------------------------------------------------------
(* SpecThreads: integration() on one process with the parallel region of   *)
(* diffusion(), lines 367-434, executed thread by thread.  A thread moves  *)
(* through the positions                                                   *)
(*   "single" (376-377)  "snap" (380-382)  "bar1" (384)  "step" (385-410)  *)
(*   "merge" (411-412)   "bar2" (414)      "check" (415-431)   "out"       *)
(* for every species it steps; the steps of different threads interleave   *)
(* as the barriers allow.                                                  *)

\* bound on comm->nthreads
MaxThreads == 2

ThreadEnvs ==
  {[e EXCEPT !.nthreads = n] : e \in {g \in GridEnvs : g.nprocs = 1}, n \in 1..MaxThreads}

Threads == 0..(cfg.nthreads - 1)

\* comm->me: the one process of SpecThreads
Me == 0

InitThreads ==
  /\ bio \in GridTables
  /\ fixes = Fixes(TRUE, TRUE, TRUE, TRUE)
  /\ \E k \in BcKinds, e \in ThreadEnvs :
       /\ nprocs = e.nprocs
       /\ cfg = [xbcflag |-> k.xbcflag, ybcflag |-> k.ybcflag, zbcflag |-> k.zbcflag,
                 unit |-> e.unit, shearRate |-> e.shearRate, q |-> e.q, af |-> e.af,
                 bl |-> e.bl, bnz |-> e.bnz, nthreads |-> e.nthreads]
  /\ InitLoopVars
  /\ sub   = [p \in Procs |-> SubBox(p)]
  /\ dims  = [p \in Procs |-> LocalDims(sub[p])]
  /\ xGrid = [p \in Procs |-> InitXGrid(p)]
  /\ nuGrid = [p \in Procs |-> InitConc(bio, cfg.unit, p, cfg.bnz)]
  /\ nuPrev = [p \in Procs |-> [nu \in Species(bio) |-> [g \in Cells(p) |-> 0]]]
  /\ nuR    = [p \in Procs |-> [nu \in Species(bio) |-> [k \in RateCells(p) |-> 0]]]
  /\ nuBS   = [p \in Procs |-> InitBulk(bio, cfg.unit)]
  /\ ghost  = [p \in Procs |-> InitGhost(p, cfg.bnz)]
  /\ nXYZ   = [p \in Procs |-> nX(p) * nY(p) * nZ(p)]
  /\ steps = 0
  /\ lastStepped = {}
  /\ bulkCalls = [i \in Species(bio) |-> 0]
  /\ firstPasses = 0
  /\ lastRates = nuR

(* line 374-375: the next species at or after i that the call steps, or    *)
(* nnus + 1 when the loop is over.                                         *)
NextSp(i) ==
  LET rest == {j \in Species(bio) : j >= i /\ Stepped(bio, nuConv, j)}
  IN  IF rest = {} THEN Len(bio.nuName) + 1
      ELSE CHOOSE j \in rest : \A k \in rest : j <= k

PosAt(i) == IF i > Len(bio.nuName) THEN "out" ELSE "single"

\* loop_setup_thr, line 372
MyCells(t) == Chunk(nXYZ[Me], cfg.nthreads, t)

(* diffusion() up to the parallel region, lines 297-372, without the       *)
(* exchange (one process): update_grids, the rates the kinetics left,      *)
(* compute_bulk, maxS = 0, conv[i] = true.                                 *)
EnterRegion ==
  /\ pc = "loop" /\ ~isConv
  /\ fixes.diffusion
  /\ iteration < MaxSteps
  /\ iteration = 0 => firstPasses < MaxSteps
  /\ LET regrid == iteration + 1 = 1 /\ cfg.bl > 0
     IN  /\ ghost' = [p \in Procs |->
                        IF regrid THEN UpdatedGhost(p, ghost[p], cfg.bnz) ELSE ghost[p]]
         /\ nXYZ' = [p \in Procs |->
                        IF regrid THEN UpdatedNXYZ(p, cfg.bnz) ELSE nXYZ[p]]
  /\ \E r \in RateChoices :
       /\ nuR' = Growth(r)
       /\ lastRates' = nuR'
       /\ nuBS' = [p \in Procs |-> BulkAfter(p, iteration + 1, nuR')]
  /\ bulkCalls' = [i \in Species(bio) |->
                     IF BulkEligible(bio, i, iteration + 1)
                     THEN bulkCalls[i] + 1 ELSE bulkCalls[i]]
  /\ packed' = nuGrid
  /\ maxShared' = 0
  /\ convShared' = [i \in Species(bio) |-> TRUE]
  /\ singles' = {}
  /\ p_maxS' = [t \in Threads |-> 0]
  /\ divs' = [t \in Threads |-> [i \in Species(bio) |-> 0]]
  /\ tsp' = [t \in Threads |-> NextSp(1)]
  /\ tpc' = [t \in Threads |-> PosAt(NextSp(1))]
  /\ pc' = "parallel"
  /\ UNCHANGED <<iteration, isConv, nuConv, bio, fixes, nprocs, calls, printed,
                 reported, lastConv, localConv, exitBy, order, growthDt,
                 nevery, ntimestep, preForced, cfg, sub, dims, xGrid, nuGrid, nuPrev,
                 steps, lastStepped, firstPasses,
                 halo, sendbuff, recvbuff, buffSize, undefined, rankVars, gasVars>>

\* what no thread writes
threadFrame == <<pc, iteration, isConv, nuConv, bio, fixes, nprocs, calls, printed,
                 reported, lastConv, localConv, exitBy, order, growthDt,
                 nevery, ntimestep, preForced, cfg, sub, dims, xGrid, nuBS, ghost,
                 nXYZ, steps, lastStepped, bulkCalls, firstPasses, lastRates,
                 haloVars, rankVars, gasVars>>

At(t, pos) == pc = "parallel" /\ tpc[t] = pos

(* lines 376-377, `#pragma omp single nowait`: the first thread to arrive  *)
(* runs maxS = 0, the others pass by without waiting.                      *)
Single(t) ==
  /\ At(t, "single")
  /\ IF tsp[t] \in singles
     THEN UNCHANGED <<maxShared, singles>>
     ELSE maxShared' = 0 /\ singles' = singles \cup {tsp[t]}
  /\ tpc' = [tpc EXCEPT ![t] = "snap"]
  /\ UNCHANGED <<threadFrame, nuGrid, nuPrev, nuR, tsp, p_maxS, convShared, divs>>

(* lines 380-382                                                           *)
Snap(t) ==
  /\ At(t, "snap")
  /\ nuPrev' = [nuPrev EXCEPT ![Me][tsp[t]] =
                  [g \in DOMAIN @ |-> IF g \in MyCells(t) THEN nuGrid[Me][tsp[t]][g] ELSE @[g]]]
  /\ tpc' = [tpc EXCEPT ![t] = "bar1"]
  /\ UNCHANGED <<threadFrame, nuGrid, nuR, tsp, maxShared, p_maxS, convShared, singles, divs>>

(* `#pragma omp barrier`, lines 384 and 414: no thread passes before       *)
(* every thread has arrived.                                               *)
\* mutant: a thread goes on without waiting for the others
Barrier_NoWait(from, to) ==
  /\ pc = "parallel"
  /\ \E t \in Threads :
       /\ tpc[t] = from
       /\ tpc' = [tpc EXCEPT ![t] = to]
  /\ UNCHANGED <<threadFrame, nuGrid, nuPrev, nuR, tsp, maxShared, p_maxS, convShared,
                 singles, divs>>

Barrier(from, to) ==
  /\ pc = "parallel"
  /\ \A t \in Threads : tpc[t] = from
  /\ tpc' = [t \in Threads |-> to]
  /\ UNCHANGED <<threadFrame, nuGrid, nuPrev, nuR, tsp, maxShared, p_maxS, convShared,
                 singles, divs>>

Barrier1 == Barrier("bar1", "step")

Barrier2 == Barrier("bar2", "check")

(* lines 385-410: the cells of the thread, and p_maxS.                     *)
SteppedCell(i, g) ==
  IF ~ghost[Me][g]
  THEN Clamp(ComputeFlux(Me, ghost[Me], bio.diffCoeff[i], nuPrev[Me][i],
                         nuR[Me][i][Ind(Me, g)], g))
  ELSE ComputeBc(Me, ghost[Me], nuPrev[Me][i], g, nuBS[Me][i], nuGrid[Me][i][g],
                 BcMembers(bio, cfg.unit))

MaxOver(f, cells) ==
  LET vals == {0} \cup {f[g] : g \in cells}
  IN  CHOOSE m \in vals : \A v \in vals : v <= m

Step(t) ==
  /\ At(t, "step")
  /\ \E new \in {[g \in MyCells(t) |-> SteppedCell(tsp[t], g)]} :
       /\ nuGrid' = [nuGrid EXCEPT ![Me][tsp[t]] =
                       [g \in DOMAIN @ |-> IF g \in MyCells(t) THEN new[g] ELSE @[g]]]
       /\ p_maxS' = [p_maxS EXCEPT ![t] = MaxOver(new, MyCells(t))]
  /\ nuR' = [nuR EXCEPT ![Me][tsp[t]] =
               [k \in DOMAIN @ |->
                  IF \E g \in MyCells(t) : ~ghost[Me][g] /\ Ind(Me, g) = k
                  THEN 0 ELSE @[k]]]
  /\ tpc' = [tpc EXCEPT ![t] = "merge"]
  /\ UNCHANGED <<threadFrame, nuPrev, tsp, maxShared, convShared, singles, divs>>

(* lines 411-412, `#pragma omp critical`: maxS = MAX(maxS, p_maxS)         *)
Merge(t) ==
  /\ At(t, "merge")
  /\ maxShared' = IF maxShared < p_maxS[t] THEN p_maxS[t] ELSE maxShared
  /\ tpc' = [tpc EXCEPT ![t] = "bar2"]
  /\ UNCHANGED <<threadFrame, nuGrid, nuPrev, nuR, tsp, p_maxS, convShared, singles, divs>>

(* lines 415-431: the check of the thread's true cells against maxS as the *)
(* thread reads it, and `critical: conv[i] &= p_conv`; then the loop over  *)
(* the species goes on.                                                    *)
TrueCells(t) == {g \in MyCells(t) : ~ghost[Me][g]}

Check(t) ==
  /\ At(t, "check")
  /\ LET i      == tsp[t]
         div    == IF maxShared = 0 THEN One ELSE maxShared
         p_conv == \A g \in TrueCells(t) :
                     Abs(nuGrid[Me][i][g] - nuPrev[Me][i][g]) * TolDen < TolNum * div
     IN  /\ convShared' = [convShared EXCEPT ![i] = @ /\ p_conv]
         /\ divs' = [divs EXCEPT ![t][i] = IF TrueCells(t) = {} THEN @ ELSE div]
         /\ tsp' = [tsp EXCEPT ![t] = NextSp(i + 1)]
         /\ tpc' = [tpc EXCEPT ![t] = PosAt(NextSp(i + 1))]
  /\ UNCHANGED <<threadFrame, nuGrid, nuPrev, nuR, maxShared, p_maxS, singles>>

(* The end of the parallel region, the reduction of lines 436-439 and the  *)
(* rest of the pass of integration().                                      *)
Join ==
  /\ pc = "parallel"
  /\ \A t \in Threads : tpc[t] = "out"
  /\ \E v \in {[p \in Procs |-> [i \in SteppedSet(bio, nuConv) |-> convShared[i]]]} :
       /\ AfterDiffusion(DiffusionFlags(bio, nuConv, v))
       /\ localConv' = v
  /\ steps' = steps + 1
  /\ lastStepped' = SteppedSet(bio, nuConv)
  /\ firstPasses' = IF iteration + 1 = 1 THEN firstPasses + 1 ELSE firstPasses
  /\ UNCHANGED <<cfg, sub, dims, xGrid, nuGrid, nuPrev, nuR, nuBS, ghost, nXYZ,
                 bulkCalls, lastRates, auxVars>>

NextThreads ==
  \/ Begin \/ EnterRegion
  \/ \E t \in Threads : Single(t)
  \/ \E t \in Threads : Snap(t)
  \/ Barrier1
  \/ \E t \in Threads : Step(t)
  \/ \E t \in Threads : Merge(t)
  \/ Barrier2
  \/ \E t \in Threads : Check(t)
  \/ Join \/ Finish

SpecThreads == InitThreads /\ [][NextThreads]_vars
-----------------------------------------------------------------------------
(* Claims about the convergence loop.                                      *)

InLoop    == pc = "loop" /\ ~isConv
LoopLeft  == (pc = "loop" /\ isConv) \/ pc = "exit" \/ (pc = "idle" /\ reported > 0)

\* C1: every call of integration() terminates: the loop is left, and it is
\* left only with every flag nuConv[1..nnus] true after a diffusion step, or
\* with the iteration count above 10000 (or, without a stepper, by the break);
\* the count never passes 10001.
C1_LoopExit ==
  /\ iteration <= IterationCap + 1
  /\ (LoopLeft /\ fixes.diffusion) =>
        (AllConverged(bio, lastConv) \/ iteration > IterationCap)
  /\ (LoopLeft /\ ~fixes.diffusion) => exitBy = "break"

C1_Terminates == [] C1_LoopExit /\ ((pc = "loop") ~> (pc = "idle"))

\* C1 witness: a loop that ran to the cap with a species the stepper never
\* reported converged, and has returned.
C1_Witness ==
  pc = "idle" /\ exitBy = "cap" /\ iteration > IterationCap /\ printed # <<>>


\* C2 (as claimed): when some species never converges naturally the loop
\* exits at inner iteration 10000, with exactly 10000 diffusion calls and
\* 10000 reported.
C2_Original ==
  (pc = "idle" /\ exitBy = "cap") =>
     (calls.diffusion = IterationCap /\ reported = IterationCap)

\* C2 (amended): when some species never converges naturally the loop exits
\* at inner iteration 10001: the stepper is invoked exactly 10001 times in
\* that macro-timestep and the reported number of inner iterations is 10001.
C2_CapExit ==
  /\ (exitBy = "cap") =>
       (iteration = IterationCap + 1 /\ calls.diffusion = IterationCap + 1)
  /\ (pc = "idle" /\ exitBy = "cap") => reported = IterationCap + 1
  /\ (InLoop /\ fixes.diffusion) => calls.diffusion = iteration

\* C2 witness: the loop has returned after a forced exit.
C2_Witness ==
  pc = "idle" /\ exitBy = "cap" /\ reported = IterationCap + 1
     /\ \E i \in Species(bio) : ~lastConv[i]

Range(seq) == {seq[k] : k \in DOMAIN seq}

\* C3: on exit through the cap the species named in the diagnostic are
\* exactly those whose flag was false after the last diffusion step, each
\* named once, and afterwards nuConv[i] is true for every i in 1..nnus.
C3_ForcedSet ==
  /\ (exitBy = "cap") =>
       /\ Range(printed) = {i \in Species(bio) : ~lastConv[i]}
       /\ Len(printed) = Cardinality(Range(printed))
       /\ \A i \in Species(bio) : nuConv[i]
  /\ (exitBy # "cap") => printed = <<>>

\* C3 witness: a forced exit where one species is named while another
\* non-exempt species had converged naturally and an exempt one exists.
C3_Witness ==
  /\ exitBy = "cap"
  /\ \E i, j, k \in Species(bio) :
       /\ i \in Range(printed) /\ ~lastConv[i]
       /\ j \notin Range(printed) /\ ~IsExempt(bio.nuName[j]) /\ lastConv[j]
       /\ k \notin Range(printed) /\ IsExempt(bio.nuName[k])

\* C4: INIT sets nuConv[i] to true exactly for the species named "h2o" or
\* "h" and to false for every other species, whatever the flags were, and
\* the flags of the exempt species are true in every state of the loop
\* that follows.
C4_InitStep ==
  (pc = "idle" /\ pc' = "loop") =>
     \A i \in Species(bio) : nuConv'[i] = IsExempt(bio.nuName[i])

C4_ExemptStay ==
  (pc \in {"loop", "exit"}) =>
     \A i \in Species(bio) :
        IsExempt(bio.nuName[i]) => (nuConv[i] /\ lastConv[i])

C4_Init == [][C4_InitStep]_vars /\ []C4_ExemptStay

\* C4 witness: a macro-timestep has ended with every flag true, a
\* non-exempt species among them, after a loop with diffusion steps: the
\* next INIT starts from these flags.
C4_Witness ==
  /\ pc = "idle" /\ reported > 1 /\ fixes.diffusion
  /\ \A i \in Species(bio) : nuConv[i]
  /\ \E i, j \in Species(bio) :
       IsExempt(bio.nuName[i]) /\ ~IsExempt(bio.nuName[j])

\* C5: with no diffusion stepper registered a call performs exactly one
\* inner iteration (pH or activity update, thermodynamics and growth with
\* the diffusion time step each at most once), and leaves the loop with
\* the loop's verdict isConv true and no species named as forced.
C5_NoStepper ==
  ~fixes.diffusion =>
     /\ iteration <= 1
     /\ calls.ph + calls.activity <= 1
     /\ calls.thermo <= 1
     /\ calls.growthDiff <= 1
     /\ calls.diffusion = 0
     /\ printed = <<>>
     /\ (pc = "loop") => (iteration = 0 /\ ~isConv)
     /\ (pc = "exit") =>
          /\ iteration = 1 /\ isConv
          /\ calls.ph + calls.activity = 1
          /\ calls.thermo = (IF fixes.thermo THEN 1 ELSE 0)
          /\ calls.growthDiff = (IF fixes.monod THEN 1 ELSE 0)
     /\ (pc = "idle" /\ exitBy = "break") => reported = 1

\* C5 witness: a call without stepper has returned after its single pass,
\* with a species whose flag is still false.
C5_Witness ==
  /\ ~fixes.diffusion /\ pc = "idle" /\ reported = 1 /\ exitBy = "break"
  /\ \E i \in Species(bio) : ~nuConv[i]

-----------------------------------------------------------------------------
(* The field after a diffusion() call.  nuPrev holds the snapshot the call *)
(* took after the halo exchange: the previous-iteration values.            *)

TrueCell(p, g) == g \in Cells(p) /\ g < nXYZ[p] /\ ~ghost[p][g]

Stride(p, a) == IF a = 1 THEN 1 ELSE IF a = 2 THEN nX(p) ELSE nX(p) * nY(p)

KindOf(a) == IF a = 1 THEN cfg.xbcflag ELSE IF a = 2 THEN cfg.ybcflag ELSE cfg.zbcflag

\* doubled coordinates of the two faces of the true domain on axis a
FaceLo2(a) == 2 * (IF a = 1 THEN xlo ELSE IF a = 2 THEN ylo ELSE zlo)
FaceHi2(a) == 2 * (IF a = 1 THEN xhi ELSE IF a = 2 THEN yhi ELSE bzhi(cfg.bnz))

\* true cells along axis a between the two faces
TrueCount(a) == IF a = 1 THEN nx ELSE IF a = 2 THEN ny ELSE cfg.bnz

\* a ghost cell beyond the low (high) face of axis a, next to a true cell
LowFaceGhost(p, g, a) ==
  /\ g < nXYZ[p] /\ ghost[p][g]
  /\ xGrid[p][g][a] < FaceLo2(a)
  /\ TrueCell(p, g + Stride(p, a))

HighFaceGhost(p, g, a) ==
  /\ g < nXYZ[p] /\ ghost[p][g]
  /\ xGrid[p][g][a] > FaceHi2(a)
  /\ TrueCell(p, g - Stride(p, a))

Axes == 1..3

\* the species' own boundary value of the low / high face of axis a
OwnLo(i, a) == BcOf(bio, cfg.unit, i)[2 * a - 1]
OwnHi(i, a) == BcOf(bio, cfg.unit, i)[2 * a]

Stepped1 == steps >= 1

-----------------------------------------------------------------------------
(* C6 (as stated): after a diffusion() call every species has a positive   *)
(* concentration in every true cell.                                       *)
C6_Original ==
  Stepped1 =>
    \A p \in Procs : \A i \in Species(bio) : \A g \in Cells(p) :
      TrueCell(p, g) => nuGrid[p][i][g] > 0

(* C6: after a diffusion() call every species the call stepped (liquid,    *)
(* flag not set) has a positive concentration in every true cell: a value  *)
(* computed as zero or negative is stored as the floor 1e-20.              *)
C6_SteppedPositive ==
  Stepped1 =>
    \A p \in Procs : \A i \in lastStepped : \A g \in Cells(p) :
      TrueCell(p, g) => nuGrid[p][i][g] > 0

\* a stepped species whose true cell held 0 and is stored as the floor
C6_Witness ==
  /\ Stepped1
  /\ \E p \in Procs : \E i \in lastStepped : \E g \in Cells(p) :
       TrueCell(p, g) /\ nuPrev[p][i][g] = 0 /\ nuGrid[p][i][g] = Floor

-----------------------------------------------------------------------------
(* C7 (as stated): under kind dd on an axis, after a diffusion() call a    *)
(* ghost cell on the low or high face of the axis next to a true cell      *)
(* holds 2*b - p floored at 1e-20, b the species' own boundary value of    *)
(* the face and p the previous-iteration value of the adjacent true cell,  *)
(* on x, y and z alike.                                                    *)
C7_Original ==
  Stepped1 =>
    \A p \in Procs : \A i \in lastStepped : \A a \in Axes : \A g \in Cells(p) :
      KindOf(a) = 1 =>
        /\ LowFaceGhost(p, g, a) =>
             nuGrid[p][i][g] = Clamp(2 * OwnLo(i, a) - nuPrev[p][i][g + Stride(p, a)])
        /\ HighFaceGhost(p, g, a) =>
             nuGrid[p][i][g] = Clamp(2 * OwnHi(i, a) - nuPrev[p][i][g - Stride(p, a)])

\* kind dd on x: the low ghost cell of a stepped species holds the value
\* computed from the last species' xbcm, which is not its own
C7_Witness ==
  /\ Stepped1 /\ cfg.xbcflag = 1
  /\ \E p \in Procs : \E i \in lastStepped : \E g \in Cells(p) :
       /\ LowFaceGhost(p, g, 1)
       /\ BcMembers(bio, cfg.unit)[1] # OwnLo(i, 1)
       /\ nuGrid[p][i][g] = Clamp(2 * BcMembers(bio, cfg.unit)[1] - nuPrev[p][i][g + 1])

-----------------------------------------------------------------------------
(* C8 (as stated): under the z kind db, after a diffusion() call a z-high  *)
(* ghost cell next to a true cell holds 2*bulk - p (floored at 1e-20),     *)
(* bulk the species' bulk concentration and p the previous-iteration value *)
(* of the adjacent true cell.                                              *)
C8_Original ==
  (Stepped1 /\ cfg.zbcflag = 5) =>
    \A p \in Procs : \A i \in lastStepped : \A g \in Cells(p) :
      HighFaceGhost(p, g, 3) =>
        nuGrid[p][i][g] = Clamp(2 * nuBS[p][i] - nuPrev[p][i][g - Stride(p, 3)])

\* kind db on z: the z-high ghost cell still holds the value it had before
C8_Witness ==
  /\ Stepped1 /\ cfg.zbcflag = 5
  /\ \E p \in Procs : \E i \in lastStepped : \E g \in Cells(p) :
       /\ HighFaceGhost(p, g, 3)
       /\ nuGrid[p][i][g] = nuPrev[p][i][g]
       /\ nuGrid[p][i][g] # Clamp(2 * nuBS[p][i] - nuPrev[p][i][g - Stride(p, 3)])

-----------------------------------------------------------------------------
\* kinds with a Neumann low / high face, with a Dirichlet low / high face
NeumannLo(k) == k \in {2, 3}
NeumannHi(k) == k \in {3, 4}
DirichletLo(k) == k = 4
DirichletHi(k) == k = 2

(* C9 (as stated): under nn, nd, dn on an axis, after a diffusion() call a *)
(* ghost cell on a Neumann face holds the previous-iteration value of the  *)
(* adjacent true cell and one on a Dirichlet face holds 2*b - p, b the     *)
(* species' own boundary value, on z-high its bulk concentration (all      *)
(* floored at 1e-20).                                                      *)
C9_Original ==
  Stepped1 =>
    \A p \in Procs : \A i \in lastStepped : \A a \in Axes : \A g \in Cells(p) :
      /\ (LowFaceGhost(p, g, a) /\ NeumannLo(KindOf(a))) =>
           nuGrid[p][i][g] = Clamp(nuPrev[p][i][g + Stride(p, a)])
      /\ (HighFaceGhost(p, g, a) /\ NeumannHi(KindOf(a))) =>
           nuGrid[p][i][g] = Clamp(nuPrev[p][i][g - Stride(p, a)])
      /\ (LowFaceGhost(p, g, a) /\ DirichletLo(KindOf(a))) =>
           nuGrid[p][i][g] = Clamp(2 * OwnLo(i, a) - nuPrev[p][i][g + Stride(p, a)])
      /\ (HighFaceGhost(p, g, a) /\ DirichletHi(KindOf(a))) =>
           nuGrid[p][i][g] =
             Clamp(2 * (IF a = 3 THEN nuBS[p][i] ELSE OwnHi(i, a))
                     - nuPrev[p][i][g - Stride(p, a)])

\* kind nd on y: the low ghost cell copies its neighbour, the high one
\* holds the value computed from the last species' ybcp, not its own
C9_Witness ==
  /\ Stepped1 /\ cfg.ybcflag = 2
  /\ \E p \in Procs : \E i \in lastStepped : \E g, h \in Cells(p) :
       /\ LowFaceGhost(p, g, 2)
       /\ nuGrid[p][i][g] = Clamp(nuPrev[p][i][g + Stride(p, 2)])
       /\ HighFaceGhost(p, h, 2)
       /\ BcMembers(bio, cfg.unit)[4] # OwnHi(i, 2)
       /\ nuGrid[p][i][h] =
            Clamp(2 * BcMembers(bio, cfg.unit)[4] - nuPrev[p][i][h - Stride(p, 2)])

-----------------------------------------------------------------------------
(* C10 (as stated): under kind pp on an axis and one process, after a      *)
(* diffusion() call a ghost cell on a face of the axis next to a true cell *)
(* holds the previous-iteration value of the true cell of its row at the   *)
(* opposite face of the true domain; with more processes it keeps the      *)
(* value the exchange delivered (either floored at 1e-20).                 *)
C10_Original ==
  Stepped1 =>
    \A p \in Procs : \A i \in lastStepped : \A a \in Axes : \A g \in Cells(p) :
      KindOf(a) = 0 =>
        /\ LowFaceGhost(p, g, a) =>
             nuGrid[p][i][g] =
               Clamp(nuPrev[p][i][IF nprocs < 2 THEN g + Stride(p, a) * TrueCount(a)
                                                ELSE g])
        /\ HighFaceGhost(p, g, a) =>
             nuGrid[p][i][g] =
               Clamp(nuPrev[p][i][IF nprocs < 2 THEN g - Stride(p, a) * TrueCount(a)
                                                ELSE g])

\* kind pp on z, one process, the grid cut below the top of the box: the
\* z-low ghost cell holds the value of the cell nz layers up, a ghost cell
C10_Witness ==
  /\ Stepped1 /\ cfg.zbcflag = 0 /\ nprocs < 2 /\ cfg.bnz < nz
  /\ \E p \in Procs : \E i \in lastStepped : \E g \in Cells(p) :
       /\ LowFaceGhost(p, g, 3)
       /\ ghost[p][g + Stride(p, 3) * nz]
       /\ nuGrid[p][i][g] = Clamp(nuPrev[p][i][g + Stride(p, 3) * nz])
       /\ nuGrid[p][i][g] # Clamp(nuPrev[p][i][g + Stride(p, 3) * TrueCount(3)])

-----------------------------------------------------------------------------
(* C26, C27.  The capacities the exchange relies on.                       *)

\* lines 303-311 have run
Sized == pc \in {"transfer", "unpack", "done"}

nsendcells(p) == Len(halo[p].sendcells)
nrecvcells(p) == Len(halo[p].recvcells)

\* C26 as stated: once lines 303-311 have run, on every process the send
\* buffer holds at least nsendcells * nnus doubles and the receive buffer
\* at least nrecvcells * nnus, so that no copy and no receive goes outside
\* a buffer, and no buffer is smaller than it was created
C26_Original ==
  Sized =>
    \A p \in Procs :
       /\ buffSize[p].send >= nsendcells(p) * nnus
       /\ buffSize[p].recv >= nrecvcells(p) * nnus
       /\ <<p, "sendbuff">> \notin undefined
       /\ <<p, "recvbuff">> \notin undefined
       /\ buffSize[p].send >= BUFMIN /\ buffSize[p].recv >= BUFMIN

\* C26 witness: a process with no more cells to send than its buffer has
\* doubles, and more than one species, has kept the buffer as created and
\* packed past its end
C26_Witness ==
  /\ Sized
  /\ \E p \in Procs :
       /\ nsendcells(p) <= BUFMIN
       /\ nsendcells(p) * nnus > BUFMIN
       /\ buffSize[p].send = BUFMIN
       /\ Len(sendbuff[p]) > buffSize[p].send
       /\ <<p, "sendbuff">> \in undefined

\* MPI_Waitall has returned
Waited == pc \in {"unpack", "done"}

\* C27 as stated: the requests a process has posted in one exchange fit the
\* nprocs slots of requests and of status
C27_Original ==
  Waited => \A p \in Procs : Requests(p) <= nprocs

\* C27 witness: of three processes in a row the middle one has posted a
\* receive and a send for each of its two peers
C27_Witness ==
  /\ Waited
  /\ nprocs = 3
  /\ \E p \in Procs :
       /\ Cardinality({q \in Procs \ {p} : halo[p].sendend[q] > halo[p].sendbegin[q]}) = 2
       /\ Requests(p) = 4
       /\ <<p, "requests">> \in undefined
-----------------------------------------------------------------------------
(* Claims about the bulk concentrations.                                   *)

\* a species the bulk update applies to
Eligible(i) == bio.nuName[i] # "o2" /\ cfg.q >= 0 /\ cfg.af >= 0

FirstPass == iteration = 0 /\ iteration' = 1

C11_Step ==
  /\ (nuBS' # nuBS) => FirstPass
  /\ \A p \in Procs : \A i \in Species(bio) :
       ~Eligible(i) => nuBS'[p][i] = nuBS[p][i]
  /\ \A i \in Species(bio) :
       bulkCalls'[i] = bulkCalls[i] + (IF Eligible(i) /\ FirstPass THEN 1 ELSE 0)

C11_Count ==
  \A i \in Species(bio) : bulkCalls[i] = IF Eligible(i) THEN firstPasses ELSE 0

(* C11: compute_bulk runs for an eligible species exactly once per call of *)
(* integration(), in the first inner iteration; no bulk concentration      *)
(* changes in a later iteration, the one of o2 never changes, and none     *)
(* changes when q < 0 or af < 0.                                           *)
C11_BulkOnce == [][C11_Step]_vars /\ []C11_Count

\* a second inner iteration has run after the bulk concentration of nh4
\* was updated in the first, next to o2 whose bulk is as initialised
C11_Witness ==
  /\ iteration >= 2
  /\ \E p \in Procs : \E i, j \in Species(bio) :
       /\ Eligible(i) /\ bulkCalls[i] = 1
       /\ nuBS[p][i] # InitBulk(bio, cfg.unit)[i]
       /\ bio.nuName[j] = "o2" /\ bulkCalls[j] = 0
       /\ nuBS[p][j] = InitBulk(bio, cfg.unit)[j]

-----------------------------------------------------------------------------
\* the reaction rate of species i summed over the cells of every process
TotalRate(rates, i) ==
  LET s == [p \in Procs |-> SumTo(rates[p][i], Cardinality(LocalRateCells(p)) - 1)]
  IN  SumTo(s, nprocs - 1)

\* the explicit Euler step of the bulk concentration with a given total
BulkWithTotal(bulk, total, zbcp) ==
  bulk + ( (cfg.q * (zbcp - bulk)) \div rvol
           + (cfg.af * total * stepx * stepy * stepz) \div (rvol * yhi * xhi) )
         * dtNevery

AfterFirstBulk == firstPasses = 1 /\ iteration = 1

(* C12 (as stated): after the bulk update every process holds the same     *)
(* bulk concentration of each species, computed from the reaction rate     *)
(* summed over the true cells of all processes.                            *)
C12_Original ==
  AfterFirstBulk =>
    \A i \in Species(bio) : Eligible(i) =>
      \A p \in Procs :
        nuBS[p][i] = BulkWithTotal(InitBulk(bio, cfg.unit)[i],
                                   TotalRate(lastRates, i),
                                   BcOf(bio, cfg.unit, i)[6])

\* two processes with different local rates hold different bulk values
C12_Witness ==
  /\ AfterFirstBulk /\ nprocs = 2
  /\ \E i \in Species(bio) :
       /\ Eligible(i)
       /\ lastRates[0][i][0] # lastRates[1][i][0]
       /\ nuBS[0][i] # nuBS[1][i]
-----------------------------------------------------------------------------
(* Convergence of the stepper.                                             *)

(* In SpecGrid the loop is left through natural convergence only (the cap  *)
(* lies beyond MaxSteps), so a first pass after an earlier diffusion()     *)
(* call is the first pass of a later invocation that follows a converged   *)
(* one.                                                                    *)
SecondInvocation == pc = "loop" /\ iteration = 0 /\ steps >= 1

\* the kinetics hand the stepper the rates of the previous pass
SameRates == lastRates' = lastRates

OnePassThenExit == iteration' = 1 /\ isConv' /\ exitBy' = "converged"

(* C15: a second invocation of the loop with unchanged reaction rates,     *)
(* after an invocation that ended with every species within tolerance,     *)
(* performs exactly one inner iteration and leaves through natural         *)
(* convergence.                                                            *)
C15_Step == (SecondInvocation /\ SameRates /\ iteration' = 1) => OnePassThenExit

MaxTrue(p, i) ==
  LET vals == {0} \cup {nuGrid[p][i][g] : g \in {c \in Cells(p) : TrueCell(p, c)}}
  IN  CHOOSE m \in vals : \A v \in vals : v <= m

\* species i moved by less than the tolerance in every true cell of process p
WithinTol(p, i) ==
  LET maxC == MaxTrue(p, i)
      div  == IF maxC = 0 THEN One ELSE maxC
  IN  \A g \in Cells(p) :
        TrueCell(p, g) => Abs(nuGrid[p][i][g] - nuPrev[p][i][g]) * TolDen < TolNum * div

PassDone == pc = "loop" /\ iteration >= 1

LaterFirstPass == PassDone /\ iteration = 1 /\ firstPasses >= 2

-----------------------------------------------------------------------------
(* Pure reaction.                                                          *)

\* the last diffusion() call found rate r in every rate cell of every process
UniformRate(i, r) ==
  \A p \in Procs : \A k \in LocalRateCells(p) : lastRates[p][i][k] = r

\* species i was stepped by the last call, without diffusion and without shear
PureReaction(i) ==
  /\ PassDone
  /\ i \in lastStepped
  /\ bio.diffCoeff[i] = 0
  /\ cfg.shearRate = 0

(* C16 (as stated): with diffusion coefficient zero, no shear and a        *)
(* nonzero uniform rate r in every true cell, one step changes every true  *)
(* cell of a stepped species by exactly r * diffT, for every r and every   *)
(* previous concentration.                                                 *)
C16_Original ==
  \A i \in Species(bio) : \A r \in RateSet \ {0} :
    (PureReaction(i) /\ UniformRate(i, r)) =>
      \A p \in Procs : \A g \in Cells(p) :
        TrueCell(p, g) => nuGrid[p][i][g] - nuPrev[p][i][g] = r * diffT

(* C16 (amended): under the same conditions every true cell whose previous *)
(* concentration plus r * diffT is positive changes by exactly r * diffT;  *)
(* a true cell for which that sum is zero or negative holds the floor.     *)
C16_PureReaction ==
  \A i \in Species(bio) : \A r \in RateSet \ {0} :
    (PureReaction(i) /\ UniformRate(i, r)) =>
      \A p \in Procs : \A g \in Cells(p) :
        TrueCell(p, g) =>
          IF nuPrev[p][i][g] + r * diffT > 0
          THEN nuGrid[p][i][g] - nuPrev[p][i][g] = r * diffT
          ELSE nuGrid[p][i][g] = Floor

\* two processes, every true cell of a species moved by r * diffT
C16_Witness ==
  \E i \in Species(bio) : \E r \in RateSet \ {0} :
    /\ PureReaction(i) /\ UniformRate(i, r)
    /\ nprocs = 2
    /\ \A p \in Procs : \A g \in Cells(p) :
         TrueCell(p, g) => /\ nuPrev[p][i][g] + r * diffT > 0
                           /\ nuGrid[p][i][g] = nuPrev[p][i][g] + r * diffT

-----------------------------------------------------------------------------
(* Local convergence verdict.                                              *)

(* C17: a stepped species is reported locally converged in an inner        *)
(* iteration iff every true cell has |c_new/maxC - c_prev/maxC| < tol,     *)
(* maxC the maximum new concentration over the true cells only, 1 in place *)
(* of maxC when maxC is 0.                                                 *)
C17_Original ==
  PassDone =>
    \A p \in Procs : \A i \in lastStepped : localConv[p][i] <=> WithinTol(p, i)

\* one thread: a species reported converged although a true cell moved by
\* tol * maxC or more, a ghost cell holding more than every true cell
C17_Witness ==
  /\ PassDone
  /\ cfg.nthreads = 1
  /\ \E p \in Procs : \E i \in lastStepped : localConv[p][i] /\ ~WithinTol(p, i)
-----------------------------------------------------------------------------
(* C21.  diffusion() is sequential up to line 366: the pack (319-325), the *)
(* requests and MPI_Waitall (327-339) and the unpack (341-345) precede the *)
(* parallel region, where the snapshot, compute_flux and compute_bc read.  *)

\* the cell of the neighbour that ghost slot g of process p mirrors
HaloSource(p, g) ==
  LET q == CHOOSE r \in RecvFrom(p, g) : TRUE
  IN  [proc |-> q, cell |-> LocalIndex(q, Wrapped(p, g))]

HaloSlots(p) == {g \in Cells(p) : RecvFrom(p, g) # {}}

\* C21: after every pass the snapshot a process took of a ghost slot, which
\* is what its fluxes read, equals the snapshot the owning process took of
\* the mirrored true cell in the same call: the value was exchanged in this
\* call, before the snapshot, and is not one of an earlier iteration
C21_ExchangeFirst ==
  PassDone =>
    \A p \in Procs : \A i \in lastStepped : \A g \in HaloSlots(p) :
       nuPrev[p][i][g] = nuPrev[HaloSource(p, g).proc][i][HaloSource(p, g).cell]

\* C21 witness: a second pass on two processes in which a ghost slot holds
\* a value its neighbour computed in the first pass, and the neighbour has
\* moved on since
C21_Witness ==
  /\ PassDone /\ iteration = 2 /\ nprocs = 2
  /\ \E p \in Procs : \E i \in lastStepped : \E g \in HaloSlots(p) :
       LET s == HaloSource(p, g)
       IN  /\ nuPrev[p][i][g] = nuPrev[s.proc][i][s.cell]
           /\ nuPrev[p][i][g] # IniS(bio, i, 0) * UnitFactor(cfg.unit)
           /\ nuPrev[p][i][g] # nuGrid[s.proc][i][s.cell]

-----------------------------------------------------------------------------
(* C24.  What a diffusion step leaves of the reaction rates.               *)

\* a pass of the loop with the stepper has been taken in this step
PassTaken == pc = "loop" /\ fixes.diffusion /\ iteration' = iteration + 1

\* the cells the loop of lines 387-410 treats as true, after the step
TrueAfter(p) == {g \in Cells(p) : g < nXYZ'[p] /\ ~ghost'[p][g]}

-----------------------------------------------------------------------------
(* C30.  fix nufeb/gas_liquid: fix_modify and the transfer.                *)

\* a call of post_integrate() has been made in this step
PostStep == gas'.calls = gas.calls + 1

\* C30 as stated: every call of modify_param comes to an end, whatever the
\* argument list, by returning or by stopping the run with an error; and a
\* call of post_integrate() changes no rate when compute_flag is 0, changes
\* no rate of a ghost cell, and adds equal and opposite amounts to the gas
\* and to the liquid of every other cell
C30_Original ==
  /\ [][PostStep =>
          /\ compute_flag = 0 => reac' = reac
          /\ \A i \in GasCells :
               /\ gas.mask[i] =>
                    reac'["gas"][i] = reac["gas"][i] /\ reac'["liquid"][i] = reac["liquid"][i]
               /\ reac'["gas"][i] - reac["gas"][i] = reac["liquid"][i] - reac'["liquid"][i]
       ]_vars
  /\ (gpc = "parse") ~> (gpc \in {"ready", "error"})

\* C30 witness: modify_param has gone through its loop more than once at
\* a word that is not "compute", with iarg where it was
C30_Witness ==
  /\ gpc = "parse"
  /\ iarg < narg
  /\ garg[iarg + 1] = "energy"
  /\ spins = 2
-----------------------------------------------------------------------------
(* Halo exchange.                                                          *)

Exchanged == pc = "done"

\* the k-th cell process p sends to q, and the k-th cell q receives from p
SentCell(p, q, k) == halo[p].sendcells[halo[p].sendbegin[q] + k]
RecvCell(q, p, k) == halo[q].recvcells[halo[q].recvbegin[p] + k]
SentCount(p, q)   == halo[p].sendend[q] - halo[p].sendbegin[q]

IdentityOnHalo(p, q) ==
  \A k \in 1..SentCount(p, q) : \A nu \in Species(bio) :
    nuGrid[q][nu][RecvCell(q, p, k)] = packed[p][nu][SentCell(p, q, k)]

OthersUntouched(q) ==
  \A nu \in Species(bio) : \A g \in DOMAIN nuGrid[q][nu] :
    (\A c \in 1..Len(halo[q].recvcells) : halo[q].recvcells[c] # g)
      => nuGrid[q][nu][g] = packed[q][nu][g]

(* C14: after the pack / exchange / unpack sequence every ghost cell of a  *)
(* receive list holds, for every species, the value the matching cell of   *)
(* the sender's list held when it was packed, and no other cell of the     *)
(* receiver is modified.                                                   *)
C14_Original ==
  Exchanged =>
    \A p \in Procs : \A q \in Procs \ {p} :
      IdentityOnHalo(p, q) /\ OthersUntouched(q)

\* three processes in a row: the middle one posts four requests into three slots
C14_Witness ==
  /\ Exchanged
  /\ nprocs = 3
  /\ <<1, "requests">> \in undefined
  /\ \E nu \in Species(bio) : nuGrid[1][nu][0] = Junk
-----------------------------------------------------------------------------
(* Claims about the initialisation of the grid.                            *)

InitDone == pc \in {"ready", "error"}

\* two cell sizes differ by more than 1e-10
Differ(a, b) == Abs(a - b) > epsilon

(* C13 (as stated): init() stops with "Grid is not cubic" whenever the     *)
(* cell sizes of two axes differ by more than 1e-10, x against y, x        *)
(* against z or y against z, and goes on only when all three agree.        *)
C13_Original ==
  InitDone =>
    LET s == CellSizes(cfg)
    IN  (pc = "error") <=>
          (Differ(s.stepx, s.stepy) \/ Differ(s.stepx, s.stepz)
             \/ Differ(s.stepy, s.stepz))

\* init() has gone on with a z cell size more than 1e-10 off the others
C13_Witness ==
  /\ pc = "ready"
  /\ LET s == CellSizes(cfg)
     IN  ~Differ(s.stepx, s.stepy) /\ Differ(s.stepx, s.stepz)

-----------------------------------------------------------------------------
(* C28.  The flags inside one integration().                               *)

\* C28: in every step taken inside the while loop of integration(), a flag
\* nuConv[i], i = 1..nnus, that is true stays true; only the initialisation
\* of the next integration() sets a flag back to false
C28_FlagsStay ==
  [][pc = "loop" => \A i \in Species(bio) : nuConv[i] => nuConv'[i]]_vars

\* the species the last diffusion() call stepped
SteppedLast == IF localConv = <<>> THEN {} ELSE DOMAIN localConv[0]

\* C28 witness: after two passes or more, a liquid species that is not
\* exempt was already flagged before the last call and is still flagged,
\* while the call has stepped another species and left it unflagged
C28_Witness ==
  /\ pc = "loop" /\ iteration >= 2 /\ ~isConv
  /\ \E i \in Species(bio) : \E j \in SteppedLast :
       /\ bio.nuType[i] = 0 /\ ~IsExempt(bio.nuName[i])
       /\ i \notin SteppedLast
       /\ nuConv[i]
       /\ ~nuConv[j]
-----------------------------------------------------------------------------
(* The reduction of the verdicts.                                          *)

\* diffusion() has returned in this invocation
Reduced == PassDone /\ fixes.diffusion

(* C18: after a diffusion step the flag of a stepped species is true, on   *)
(* every process, iff the local verdict of every process for that species  *)
(* was true.                                                               *)
C18_FlagIffAll ==
  Reduced =>
    \A i \in DOMAIN localConv[0] :
      lastConv[i] <=> \A p \in Procs : localConv[p][i]

\* two processes, one converged and one not: the species stays unconverged
C18_Witness ==
  /\ Reduced
  /\ nprocs = 2
  /\ \E i \in DOMAIN localConv[0] :
       localConv[0][i] /\ ~localConv[1][i] /\ ~lastConv[i] /\ ~nuConv[i]

-----------------------------------------------------------------------------
(* The order of the participants.                                          *)

\* a pass of the loop body has run and integration() has not gone past the loop
InBody == (pc = "loop" /\ iteration >= 1) \/ pc = "exit"

Rank(name) ==
  CASE name = "ph"         -> 1
    [] name = "activity"   -> 1
    [] name = "thermo"     -> 2
    [] name = "growthDiff" -> 3
    [] name = "diffusion"  -> 4
    [] name = "test"       -> 5
    [] OTHER               -> 6

Registered(name) ==
  CASE name = "ph"         -> fixes.ph
    [] name = "activity"   -> ~fixes.ph
    [] name = "thermo"     -> fixes.thermo
    [] name = "growthDiff" -> fixes.monod
    [] name = "diffusion"  -> fixes.diffusion
    [] name = "test"       -> fixes.diffusion
    [] OTHER               -> FALSE

BodySteps == {"ph", "activity", "thermo", "growthDiff", "diffusion", "test"}

(* C19: in every inner iteration the participants run in the order pH      *)
(* equilibrium (activity recomputation when no pH solver is registered),   *)
(* thermodynamics, growth kinetics with the diffusion time step, diffusion *)
(* stepper; the flags are tested only after the stepper has returned, and  *)
(* an absent participant is skipped without changing the order of the      *)
(* others.                                                                 *)
C19_FixedOrder ==
  InBody =>
    /\ \A name \in BodySteps :
         Registered(name) <=> \E k \in 1..Len(order) : order[k] = name
    /\ \A k \in 1..Len(order) : \A l \in 1..Len(order) :
         k < l => Rank(order[k]) < Rank(order[l])

\* a pass without pH solver, thermodynamics and growth kinetics
C19_Witness ==
  /\ InBody
  /\ ~fixes.thermo /\ ~fixes.monod
  /\ order = <<"activity", "diffusion", "test">>

-----------------------------------------------------------------------------
(* The growth step after the loop, and the timesteps the loop runs on.     *)

\* integration() ran in this timestep and has returned
Integrated == pc = "idle" /\ preForced = ntimestep /\ Due

\* integration() is running
Integrating == pc \in {"called", "loop", "exit"}

\* integration() is in its loop or between the loop and the final growth step
InsideLoop == pc \in {"loop", "exit"}

CountOf(name) == Cardinality({k \in 1..Len(order) : order[k] = name})

(* C20: once the loop has exited (by natural convergence, by the cap or    *)
(* because no stepper is registered) the growth kinetics, when registered, *)
(* are invoked exactly once more, with update->dt * nevery, after the last *)
(* inner iteration and never between two inner iterations; the loop runs   *)
(* only on timesteps that are multiples of nevery, and never when nevery   *)
(* is 0.                                                                   *)
C20_GrowthAfterLoop ==
  /\ Integrated =>
       /\ exitBy \in {"converged", "cap", "break"}
       /\ calls.growthFull = (IF fixes.monod THEN 1 ELSE 0)
       /\ CountOf("growthFull") = calls.growthFull
       /\ fixes.monod => /\ order[Len(order)] = "growthFull"
                         /\ growthDt = dt * nevery
  /\ InsideLoop =>
       /\ calls.growthFull = 0
       /\ CountOf("growthFull") = 0
       /\ growthDt \in {0, diffT}
  /\ Integrating =>
       /\ nevery # 0
       /\ ntimestep % nevery = 0
  /\ (preForced = ntimestep /\ ~Due) => pc = "idle"

\* the second run of a loop that runs every second timestep, left by the cap
C20_Witness ==
  /\ Integrated
  /\ nevery = 2 /\ ntimestep = 2
  /\ exitBy = "cap"
  /\ fixes.monod /\ calls.growthFull = 1 /\ growthDt = dt * nevery

-----------------------------------------------------------------------------
(* C29.  The processes stay in step.                                       *)

\* a process is between two passes, or has left the loop
Resting(p) == rank[p].pc \in {"top", "out"}

\* the passes the model lets a process take are used up
Spent(p) == rank[p].iteration - rank[p].start >= MaxSteps

\* a process that rests will stay where it is
Settled(p) ==
  \/ rank[p].pc = "out"
  \/ rank[p].pc = "top" /\ ~rank[p].isConv /\ Spent(p)

\* C29: the processes step the same species in their k-th diffusion() call,
\* for every k, and no process is more than one call ahead of another; two processes that are both between passes after the same
\* number of passes hold the same flags and the same isConv; once all have
\* settled, all have left the loop or none has, with the same number of
\* passes, of posted exchanges and of reductions entered; and no process
\* stays in an exchange or in a reduction for ever
C29_InStep ==
  /\ [](\A p \in Procs : \A q \in Procs :
          /\ hist[p].n - hist[q].n \in {0 - 1, 0, 1}
          /\ hist[p].n = hist[q].n => hist[p].cur = hist[q].cur
          /\ hist[p].n = hist[q].n + 1 => hist[p].prev = hist[q].cur
          /\ (Resting(p) /\ Resting(q) /\ rank[p].iteration = rank[q].iteration) =>
                /\ rank[p].isConv = rank[q].isConv
                /\ \A i \in Species(bio) : rank[p].nuConv[i] = rank[q].nuConv[i]
          /\ (Settled(p) /\ Settled(q)) =>
                /\ rank[p].pc = rank[q].pc
                /\ rank[p].iteration = rank[q].iteration
                /\ posted[p] = posted[q]
                /\ given[p].n = given[q].n)
  /\ <>[](\A p \in Procs : Settled(p))

\* C29 witness: three processes have left the loop after two passes, the
\* same number of exchanges and the same number of reductions, although in
\* the last reduction their own values differed
C29_Witness ==
  /\ nprocs = 3
  /\ \A p \in Procs :
       /\ rank[p].pc = "out" /\ rank[p].iteration - rank[p].start = 2
       /\ posted[p] = 2 /\ given[p].n = 2 * nnus
  /\ \E p \in Procs : \E q \in Procs : given[p].cur # given[q].cur

-----------------------------------------------------------------------------
(* C25.  The ghost flags after init() and after update_grids().            *)

\* the centre of cell g lies outside the sub-box of process p on some axis,
\* or above the fill height
OutsideOwn(p, g) ==
  LET x == xGrid2(p, g)
  IN  \/ \E a \in 1..3 : x[a] < 2 * sublo(p)[a] \/ x[a] > 2 * subhi(p)[a]
      \/ x[3] > 2 * bzhi(cfg.bnz)

\* the cells of the loops of diffusion()
LoopCells(p) == {g \in Cells(p) : g < nXYZ[p]}

\* cell g has a cell of the local array on each of its six sides
SixNeighbours(p, g) ==
  /\ IX(p, g) >= 1 /\ IX(p, g) <= nX(p) - 2
  /\ IY(p, g) >= 1 /\ IY(p, g) <= nY(p) - 2
  /\ IZ(p, g) >= 1 /\ IZ(p, g) <= nZ(p) - 2

\* C25 as stated: after init() and after every update_grids(), on every
\* process a cell of the loops is flagged ghost iff its centre lies outside
\* the process's sub-box on some axis or above the fill height, and every
\* cell flagged true has its six neighbours inside the local array
C25_Original ==
  \A p \in Procs : \A g \in LoopCells(p) :
     /\ ghost[p][g] <=> OutsideOwn(p, g)
     /\ ~ghost[p][g] => SixNeighbours(p, g)

\* C25 witness: after an update_grids() on the process whose sub-box does
\* not start at the origin, a cell of the low x layer, whose centre lies
\* below sublo, is flagged true and has no cell on its low x side
C25_Witness ==
  /\ firstPasses >= 1
  /\ \E p \in Procs : \E g \in LoopCells(p) :
       /\ sublo(p)[1] > 0
       /\ xGrid2(p, g)[1] < 2 * sublo(p)[1]
       /\ ~ghost[p][g]
       /\ ~SixNeighbours(p, g)
       /\ InitGhost(p, cfg.bnz)[g]
-----------------------------------------------------------------------------
(* C22.  maxS in the parallel region, lines 376-377 and 409-428.           *)

\* the maximum over the contributions of all threads: p_maxS of a thread
\* covers the cells ifrom..ito-1 of the loop of line 387
FullMax(i) == MaxUpTo(nuGrid[Me][i], nXYZ[Me] - 1)

Divisor(i) == IF FullMax(i) = 0 THEN One ELSE FullMax(i)

\* a thread is inside the check of species i while the single of a later
\* species has already run maxS = 0
ResetUnderCheck ==
  /\ pc = "parallel"
  /\ \E u \in Threads : \E j \in singles : tpc[u] = "check" /\ tsp[u] < j

\* C22 as claimed: in the check of a species every thread divides by the
\* same value, the maximum over the contributions of all threads, and maxS
\* is not reset while a thread is still checking
C22_Original ==
  /\ ~ResetUnderCheck
  /\ PassDone =>
       \A i \in lastStepped : \A t \in Threads :
          TrueCells(t) # {} => divs[t][i] = Divisor(i)

\* C22 witness: two threads have divided by different values in the check
\* of one species, and the verdict of the process is not the one the
\* combined maximum gives
C22_Witness ==
  /\ PassDone
  /\ \E i \in lastStepped : \E t \in Threads : \E u \in Threads :
       /\ TrueCells(t) # {} /\ TrueCells(u) # {}
       /\ divs[t][i] = Divisor(i)
       /\ divs[u][i] = One /\ Divisor(i) # One
       /\ localConv[Me][i] # LocalVerdict(ghost[Me], nXYZ[Me], nuGrid[Me][i], nuPrev[Me][i], {})

-----------------------------------------------------------------------------
(* C23.  The accesses of the threads to nuPrev, nuGrid and nuR between the *)
(* barriers.                                                               *)

\* the entry of nuPrev that compute_bc reads for ghost cell g, lines 491-592
BcReads(g) ==
  LET a  == nX(Me)
      b  == nX(Me) * nY(Me)
      x  == xGrid2(Me, g)
      gh == ghost[Me]
      pick(flag, adj, opp) ==
        IF flag = 0 THEN (IF nprocs < 2 THEN {opp} ELSE {})
        ELSE IF flag \in 1..4 THEN {adj} ELSE {}
  IN  IF x[3] < 2 * zlo /\ ~gh[g + b] THEN pick(cfg.zbcflag, g + b, g + b * nz)
      ELSE IF x[3] > 2 * zhi /\ ~gh[g - b] THEN pick(cfg.zbcflag, g - b, g - b * nz)
      ELSE IF x[2] < 2 * ylo /\ ~gh[g + a] THEN pick(cfg.ybcflag, g + a, g + a * ny)
      ELSE IF x[2] > 2 * yhi /\ ~gh[g - a] THEN pick(cfg.ybcflag, g - a, g - a * ny)
      ELSE IF x[1] < 2 * xlo /\ ~gh[g + 1] THEN pick(cfg.xbcflag, g + 1, g + nx)
      ELSE IF x[1] > 2 * xhi /\ ~gh[g - 1] THEN pick(cfg.xbcflag, g - 1, g - nx)
      ELSE {}

\* the entries of nuPrev that compute_flux reads for true cell g, lines 602-632
FluxReads(g) ==
  {g, g - 1, g + 1, g - nX(Me), g + nX(Me),
   g - nX(Me) * nY(Me), g + nX(Me) * nY(Me)}

PrevReads(t) ==
  UNION {IF ghost[Me][g] THEN BcReads(g) ELSE FluxReads(g) : g \in MyCells(t)}

(* What the next step of thread t writes and reads outside a critical      *)
(* section, as <<array, species, index>>.                                  *)
Writes(t) ==
  IF tpc[t] = "snap" THEN {<<"nuPrev", tsp[t], g>> : g \in MyCells(t)}
  ELSE IF tpc[t] = "step"
    THEN {<<"nuGrid", tsp[t], g>> : g \in MyCells(t)}
           \cup {<<"nuR", tsp[t], Ind(Me, g)>> : g \in TrueCells(t)}
  ELSE IF tpc[t] = "single" /\ tsp[t] \notin singles THEN {<<"maxS", 0, 0>>}
  ELSE {}

Reads(t) ==
  IF tpc[t] = "snap" THEN {<<"nuGrid", tsp[t], g>> : g \in MyCells(t)}
  ELSE IF tpc[t] = "step"
    THEN {<<"nuPrev", tsp[t], g>> : g \in PrevReads(t)}
           \cup {<<"nuGrid", tsp[t], g>> : g \in MyCells(t) \ TrueCells(t)}
           \cup {<<"nuR", tsp[t], Ind(Me, g)>> : g \in TrueCells(t)}
  ELSE IF tpc[t] = "check"
    THEN {<<"nuGrid", tsp[t], g>> : g \in TrueCells(t)}
           \cup {<<"nuPrev", tsp[t], g>> : g \in TrueCells(t)}
           \cup (IF TrueCells(t) = {} THEN {} ELSE {<<"maxS", 0, 0>>})
  ELSE {}

\* the accesses inside `#pragma omp critical`
Guarded(t) ==
  IF tpc[t] = "merge" THEN {<<"maxS", 0, 0>>}
  ELSE IF tpc[t] = "check" THEN {<<"conv", tsp[t], 0>>}
  ELSE {}

Fields == {"nuPrev", "nuGrid", "nuR"}

\* two threads whose next steps touch one location, one of them writing,
\* not both inside a critical section
Conflicts(t, u) ==
  (Writes(t) \cap (Writes(u) \cup Reads(u) \cup Guarded(u)))
     \cup (Guarded(t) \cap (Writes(u) \cup Reads(u)))

FieldRace ==
  /\ pc = "parallel"
  /\ \E t \in Threads : \E u \in Threads \ {t} :
       \E c \in Conflicts(t, u) : c[1] \in Fields

Owners(g) == {t \in Threads : g \in MyCells(t)}

====
